---- MODULE Spec2Model ----
(***************************************************************************)
(* Shipment lifecycle reconciliation of the Delifast/Shopify integration.  *)
(*                                                                         *)
(* The repository holds two deployments of the same engine: the Express    *)
(* app (src/src/...) and the React-Router app (src/delifast/app/...).      *)
(* The variable `app` says which one is running; it never changes.         *)
(*                                                                         *)
(* Time is counted in coarse ticks.  The durations of the code are scaled  *)
(* to a few ticks each, keeping their order: 15 min and 30 min are 1 tick, *)
(* 60 min are 2 ticks, 24 h are 5 ticks.  maxLookupAttempts (24 in the     *)
(* code) is scaled to 2.                                                   *)
(***************************************************************************)
EXTENDS Integers, Sequences, FiniteSets, TLC

VARIABLES env, app, now, settings, tokenSeq, ledger, nextId, proc, res, partner,
          shopify, profile, obs

vars == <<env, app, now, settings, tokenSeq, ledger, nextId, proc, res, partner,
          shopify, profile, obs>>

(***************************************************************************)
(* Bounds of the model                                                     *)
(***************************************************************************)
MaxTime == 3
MaxLogins == 2
MaxRows == 3

\* process.env.JOB_SECRET: unset (or empty) or set
NoSecret == ""

JobSecret == "s3cret"

Apps == {"express", "remix"}
Shops == {"s1"}
Orders == {"o1"}
Procs == {"p1", "p2"}

(***************************************************************************)
(* Program constants (durations in ticks)                                  *)
(***************************************************************************)
tokenExpiryHours == 5
tokenRefreshMinutes == 1
sendLookupDelay == 1
lookupIntervalMinutes == 2
maxLookupAttempts == 2
syncBatch == 100
tempIdBatch == 50

NULL == <<>>
NoTime == -1
NoToken == 0

(***************************************************************************)
(* Shipment identifiers: <<prefix, reference, number>>                     *)
(***************************************************************************)
RealA == <<"SH-", "a", 1>>
RealB == <<"SH-", "b", 2>>
TempP == <<"TEMP-", "x", 0>>

PartnerIds == {RealA, TempP}
ManualIds == {RealB, TempP}

isTemporaryId(shipmentId) ==
    /\ shipmentId # NULL
    /\ shipmentId[1] \in {"DELIFAST-", "PENDING-", "TEMP-"}

generateTemporaryId(orderNumber, t) == <<"PENDING-", orderNumber, t>>

(***************************************************************************)
(* Token cache and login                                                   *)
(***************************************************************************)
\* sender fields: absent, typed by the merchant, or taken from the partner's
\* account profile
NoSender == ""
NoProfile == [FullName |-> NoSender, Address |-> NoSender]
Profiles == [FullName : {NoSender, "partner"}, Address : {NoSender, "partner"}]

NoSettings ==
    [exists |-> FALSE, delifastUsername |-> FALSE, delifastPassword |-> FALSE,
     apiToken |-> NoToken, tokenExpiry |-> NoTime,
     mode |-> "manual", autoSendStatus |-> "paid",
     senderName |-> NoSender, senderAddress |-> NoSender]

\* the sender fields of a login response (tokenManager.js:145-152): a field
\* that is empty is not written
saveSenderInfo(st, data) ==
    [st EXCEPT !.senderName = IF data.FullName # NoSender
                              THEN data.FullName ELSE @,
               !.senderAddress = IF data.Address # NoSender
                                 THEN data.Address ELSE @]

getToken(st, t) ==
    IF st.apiToken = NoToken THEN NoToken
    ELSE IF st.tokenExpiry # NoTime /\ st.tokenExpiry <= t THEN NoToken
    ELSE st.apiToken

setToken(st, token, t) ==
    [st EXCEPT !.apiToken = token, !.tokenExpiry = t + tokenExpiryHours]

clearToken(st) ==
    [st EXCEPT !.apiToken = NoToken, !.tokenExpiry = NoTime]

LoginOutcomes == {"ok", "rejected", "notoken"}

Ev(e, tok, code) == [ev |-> e, tok |-> tok, code |-> code]

\* login: result [st, seq, ok, token, err, trace]; the event of the trace
\* carries the token issued and the HTTP status of the login call (0: the
\* call was not made)
login_forgetsToken(st, seq, t, lo) ==
    IF ~st.delifastUsername \/ ~st.delifastPassword
    THEN [st |-> st, seq |-> seq, ok |-> FALSE, token |-> NoToken,
          err |-> "Delifast credentials not configured",
          trace |-> <<Ev("login", NoToken, 0)>>]
    ELSE IF lo = "ok"
    THEN [st |-> saveSenderInfo(setToken(st, seq + 1, t), profile),
          seq |-> seq + 1, ok |-> TRUE,
          token |-> seq + 1, err |-> "", trace |-> <<Ev("login", seq + 1, 200)>>]
    ELSE [st |-> clearToken(st), seq |-> seq, ok |-> FALSE, token |-> NoToken,
          err |-> "Login failed", trace |-> <<Ev("login", NoToken, 401)>>]

login(st, seq, t, lo) ==
    IF ~st.delifastUsername \/ ~st.delifastPassword
    THEN [st |-> st, seq |-> seq, ok |-> FALSE, token |-> NoToken,
          err |-> "Delifast credentials not configured",
          trace |-> <<Ev("login", NoToken, 0)>>]
    ELSE IF lo = "ok"
    THEN [st |-> saveSenderInfo(setToken(st, seq + 1, t), profile),
          seq |-> seq + 1, ok |-> TRUE,
          token |-> seq + 1, err |-> "", trace |-> <<Ev("login", seq + 1, 200)>>]
    ELSE IF lo = "notoken"
    THEN [st |-> st, seq |-> seq, ok |-> FALSE, token |-> NoToken,
          err |-> "Token not found in login response",
          trace |-> <<Ev("login", NoToken, 200)>>]
    ELSE [st |-> st, seq |-> seq, ok |-> FALSE, token |-> NoToken,
          err |-> "Login failed", trace |-> <<Ev("login", NoToken, 401)>>]

NeedsRefresh_never(st, t) == FALSE

NeedsRefresh(st, t) ==
    /\ st.tokenExpiry # NoTime
    /\ st.tokenExpiry <= t + tokenRefreshMinutes

ensureValidToken(st, seq, t, lo) ==
    LET token == getToken(st, t) IN
    IF token # NoToken
    THEN IF NeedsRefresh(st, t)
         THEN login(st, seq, t, lo)
         ELSE [st |-> st, seq |-> seq, ok |-> TRUE, token |-> token,
               err |-> "", trace |-> <<>>]
    ELSE login(st, seq, t, lo)

(***************************************************************************)
(* Partner API: responses and the authenticated request                    *)
(***************************************************************************)
Body(kind, id, status) == [kind |-> kind, id |-> id, status |-> status]

ErrBody == Body("error", NULL, "none")

PartnerStatuses == {"in_transit", "completed", "cancelled", "returned", "unknown"}

CreateBodies ==
    {Body("id", i, "none") : i \in PartnerIds}
        \cup {Body("success", NULL, "none"), Body("fail", NULL, "none")}

StatusBodies ==
    {Body("status", NULL, s) : s \in PartnerStatuses}
        \cup {Body("notfound", NULL, "none")}

LookupBodies ==
    {Body("id", i, "none") : i \in PartnerIds} \cup {Body("none", NULL, "none")}

Bodies(endpoint) ==
    CASE endpoint = "createShipment" -> CreateBodies
      [] endpoint = "getStatus" -> StatusBodies
      [] endpoint = "getCities" -> {Body("cities", NULL, "none")}
      [] OTHER -> LookupBodies

\* code 0 stands for a request that got no HTTP response (network error)
ErrorCodes == {401, 405, 500, 0}

Outcomes(endpoint) ==
    {[code |-> 200, body |-> b] : b \in Bodies(endpoint)}
        \cup {[code |-> c, body |-> ErrBody] : c \in ErrorCodes}

Resp(st, seq, ok, body, err, status, trace) ==
    [st |-> st, seq |-> seq, ok |-> ok, body |-> body, err |-> err,
     status |-> status, trace |-> trace]

HttpErr(code) == IF code = 0 THEN "network error" ELSE "Request failed"

\* the 401 branch of makeRequest: clearToken, login, one retry
RetryAfter401_oldToken(st, seq, t, oldToken, lo, o, tr) ==
    LET tr2 == tr \o <<Ev("http", oldToken, o.code)>> IN
    IF o.code = 200
    THEN Resp(st, seq, TRUE, o.body, "", 200, tr2)
    ELSE Resp(st, seq, FALSE, ErrBody, HttpErr(o.code), o.code, tr2)

RetryAfter401(st, seq, t, oldToken, lo, o, tr) ==
    LET cleared == clearToken(st)
        lg == login(cleared, seq, t, lo)
        tr1 == tr \o <<Ev("clear", NoToken, 0)>> \o lg.trace
        tr2 == tr1 \o <<Ev("http", lg.token, o.code)>>
    IN  IF ~lg.ok
        THEN Resp(lg.st, lg.seq, FALSE, ErrBody, lg.err, 0, tr1)
        ELSE IF app = "express"
        THEN \* axios rejects every non-2xx answer to the retry
             IF o.code = 200
             THEN Resp(lg.st, lg.seq, TRUE, o.body, "", 200, tr2)
             ELSE Resp(lg.st, lg.seq, FALSE, ErrBody, HttpErr(o.code), o.code, tr2)
        ELSE \* fetch: the retry's body is returned whatever its status
             IF o.code = 0
             THEN Resp(lg.st, lg.seq, FALSE, ErrBody, HttpErr(0), 0, tr2)
             ELSE Resp(lg.st, lg.seq, TRUE, o.body, "", o.code, tr2)

makeRequest(st, seq, t, lo1, o1, lo2, o2) ==
    LET ev == ensureValidToken(st, seq, t, lo1)
        tr == ev.trace \o <<Ev("http", ev.token, o1.code)>>
    IN  IF ~ev.ok
        THEN Resp(ev.st, ev.seq, FALSE, ErrBody, ev.err, 0, ev.trace)
        ELSE IF o1.code = 200
        THEN Resp(ev.st, ev.seq, TRUE, o1.body, "", 200, tr)
        ELSE IF o1.code = 401
        THEN RetryAfter401(ev.st, ev.seq, t, ev.token, lo2, o2, tr)
        ELSE IF app = "express"
        THEN Resp(ev.st, ev.seq, FALSE, ErrBody, HttpErr(o1.code), o1.code, tr)
        ELSE Resp(ev.st, ev.seq, FALSE, ErrBody,
                  IF o1.code = 0 THEN HttpErr(0) ELSE "API error", 0, tr)

(***************************************************************************)
(* Partner API client                                                      *)
(***************************************************************************)
\* extractShipmentId on the response bodies of the model
extractShipmentId(body) == IF body.kind = "id" THEN body.id ELSE NULL

\* createShipment: [ok, shipmentId, needsLookup, isTemporary, err]
CreateResult(ok, shipmentId, needsLookup, err) ==
    [ok |-> ok, shipmentId |-> shipmentId, needsLookup |-> needsLookup,
     isTemporary |-> isTemporaryId(shipmentId), err |-> err]

createShipment(r) ==
    IF ~r.ok THEN CreateResult(FALSE, NULL, FALSE, r.err)
    ELSE LET shipmentId == extractShipmentId(r.body) IN
         IF shipmentId # NULL THEN CreateResult(TRUE, shipmentId, FALSE, "")
         ELSE IF r.body.kind = "success" THEN CreateResult(TRUE, NULL, TRUE, "")
         ELSE CreateResult(FALSE, NULL, FALSE, "Failed to create shipment")

\* every answer makeRequest can give for one call of an endpoint
\* (an input makeRequest does not consult is fixed instead of enumerated)
RequestResults(st, seq, t, endpoint) ==
    LET first == IF getToken(st, t) # NoToken /\ ~NeedsRefresh(st, t)
                 THEN {"ok"} ELSE LoginOutcomes
        any == CHOOSE o \in Outcomes(endpoint) : TRUE
    IN  UNION {
          IF lo1 # "ok" THEN {makeRequest(st, seq, t, lo1, any, "ok", any)}
          ELSE UNION {
              IF o1.code # 401 THEN {makeRequest(st, seq, t, lo1, o1, "ok", any)}
              ELSE UNION {
                  IF lo2 # "ok" THEN {makeRequest(st, seq, t, lo1, o1, lo2, any)}
                  ELSE {makeRequest(st, seq, t, lo1, o1, lo2, o2) :
                            o2 \in Outcomes(endpoint)}
                  : lo2 \in LoginOutcomes }
              : o1 \in Outcomes(endpoint) }
          : lo1 \in LoginOutcomes }

\* extractStatusFromResponse + mapStatusValue on the bodies of the model
extractStatusFromResponse(body) ==
    IF body.kind = "status" THEN body.status ELSE "unknown"

NoDetails == "null"

StatusResult(r, ok, status, details, success, calls) ==
    [st |-> r.st, seq |-> r.seq, ok |-> ok, status |-> status,
     statusDetails |-> details, success |-> success, isTemporary |-> FALSE,
     err |-> r.err, calls |-> calls, attempts |-> 1]

StatusOf(r, calls) ==
    IF ~r.ok THEN StatusResult(r, FALSE, "none", NoDetails, FALSE, calls)
    ELSE StatusResult(r, TRUE, extractStatusFromResponse(r.body), NoDetails, TRUE, calls)

HttpCalls(trace) == Len(SelectSeq(trace, LAMBDA e : e.ev = "http"))

\* second attempt of getShipmentStatus: express only after a 405, the
\* React-Router app after any failure of the first call
RetriesWithoutQuery(r) ==
    IF app = "express" THEN r.status = 405 ELSE TRUE

\* where a first call left the store, for the call that follows it
After(r) == [st |-> r.st, seq |-> r.seq, calls |-> HttpCalls(r.trace)]

\* getShipmentStatus for an identifier that is not temporary; attempts is
\* the number of times it called makeRequest
getShipmentStatusResults(st, seq, t) ==
    LET R1 == RequestResults(st, seq, t, "getStatus")
        again == {After(r1) : r1 \in {r \in R1 : ~r.ok /\ RetriesWithoutQuery(r)}}
    IN  {IF r1.body.kind = "notfound"
         THEN StatusResult(r1, TRUE, "not_found",
                           "Shipment not found in Delifast system", FALSE,
                           HttpCalls(r1.trace))
         ELSE StatusOf(r1, HttpCalls(r1.trace)) : r1 \in {r \in R1 : r.ok}}
        \cup {StatusOf(r1, HttpCalls(r1.trace)) :
                  r1 \in {r \in R1 : ~r.ok /\ ~RetriesWithoutQuery(r)}}
        \cup UNION {{[StatusOf(r2, a.calls + HttpCalls(r2.trace))
                         EXCEPT !.attempts = 2] :
                        r2 \in RequestResults(a.st, a.seq, t, "getStatus")} :
                    a \in again}

\* lookupByOrderNumber: primary endpoint, then the alternate one; every
\* failure is swallowed and answered with null
LookupFailed == "Lookup failed"

LookupResult_raising(r, id, calls) ==
    [st |-> r.st, seq |-> r.seq, id |-> id, calls |-> calls,
     raised |-> ~r.ok, logged |-> IF r.ok THEN "" ELSE LookupFailed]

LookupResult(r, id, calls) ==
    [st |-> r.st, seq |-> r.seq, id |-> id, calls |-> calls,
     raised |-> FALSE, logged |-> IF r.ok THEN "" ELSE LookupFailed]

lookupByOrderNumberResults(st, seq, t) ==
    LET R1 == RequestResults(st, seq, t, "lookupByOrderNumber")
        again == {After(r1) :
                     r1 \in {r \in R1 : r.ok /\ extractShipmentId(r.body) = NULL}}
    IN  {LookupResult(r1, NULL, HttpCalls(r1.trace)) : r1 \in {r \in R1 : ~r.ok}}
        \cup {LookupResult(r1, extractShipmentId(r1.body), HttpCalls(r1.trace)) :
                  r1 \in {r \in R1 : r.ok /\ extractShipmentId(r.body) # NULL}}
        \cup UNION {{LookupResult(r2,
                                  IF r2.ok THEN extractShipmentId(r2.body) ELSE NULL,
                                  a.calls + HttpCalls(r2.trace)) :
                        r2 \in RequestResults(a.st, a.seq, t, "lookupShipment")} :
                    a \in again}

(***************************************************************************)
(* Shipment ledger                                                         *)
(***************************************************************************)
NoRow == [id |-> 0]

\* the columns of Shipment that the operations below read or decide on
DefaultRow(id, shop, order, t) ==
    [id |-> id, shop |-> shop, shopifyOrderId |-> order,
     shipmentId |-> NULL, isTemporaryId |-> FALSE, status |-> "new",
     statusDetails |-> NoDetails, lookupAttempts |-> 0,
     lastLookupAt |-> NoTime, nextLookupAt |-> NoTime]

Merge(row, data) ==
    [f \in DOMAIN row |-> IF f \in DOMAIN data THEN data[f] ELSE row[f]]

RowsOf(L, shop, order) ==
    {r \in L : r.shop = shop /\ r.shopifyOrderId = order}

findUnique(L, shop, order) ==
    IF RowsOf(L, shop, order) = {} THEN NoRow
    ELSE CHOOSE r \in RowsOf(L, shop, order) : TRUE

update_everyRow(L, id, data) ==
    {Merge(r, data) : r \in L}

update(L, id, data) ==
    {IF r.id = id THEN Merge(r, data) ELSE r : r \in L}

upsert_alwaysCreate(L, id, shop, order, t, updateData, createData) ==
    L \cup {Merge(DefaultRow(id, shop, order, t), createData)}

upsert(L, id, shop, order, t, updateData, createData) ==
    IF RowsOf(L, shop, order) = {}
    THEN L \cup {Merge(DefaultRow(id, shop, order, t), createData)}
    ELSE {IF r.shop = shop /\ r.shopifyOrderId = order
          THEN Merge(r, updateData) ELSE r : r \in L}

RECURSIVE SortById(_)
SortById(S) ==
    IF S = {} THEN <<>>
    ELSE LET r == CHOOSE x \in S : \A y \in S : x.id <= y.id
         IN  <<r>> \o SortById(S \ {r})

Take(q, n) == IF Len(q) <= n THEN q ELSE SubSeq(q, 1, n)

(***************************************************************************)
(* Running operations and what the last step did                           *)
(***************************************************************************)
NoCreate == [ok |-> FALSE, shipmentId |-> NULL, needsLookup |-> FALSE,
             isTemporary |-> FALSE, err |-> ""]

\* token: the token of a login response that is not saved yet;
\* pc: where the operation stands; cr: the answer of createShipment; err: the
\* exception on its way to the catch block; stores/queue: the stores and the
\* selected rows a job still has to process
Idle == [pc |-> "idle", shop |-> "", order |-> "",
         cr |-> NoCreate, err |-> "", stores |-> <<>>, queue |-> <<>>,
         token |-> NoToken]

\* res[p] is the HTTP exchange of the webhook that slot p is serving: the
\* topic, store and order of the request, how far the route has come
\* (phase) and the status code already sent to the caller (0: none yet)
NoResponse == [phase |-> "none", entry |-> "", shop |-> "", order |-> "", status |-> 0]

\* obs describes the step just taken: the action and its entry point, the
\* store and order it was about, what its caller got (ok, err), the number of partner
\* calls it issued, and (for GetCities) the HTTP status of the answer that
\* makeRequest returned and the events of makeRequest
NoObs == [act |-> "none", entry |-> "", shop |-> "", order |-> "", ok |-> TRUE, err |-> "",
          calls |-> 0, code |-> 0, trace |-> <<>>, warn |-> ""]

\* The update of the order in Shopify (metafields, tags) that follows a
\* ledger write: try { updateOrderMetafields; addOrderTags } catch { log a
\* warning }. shopify is the state of that service; raised: the failure
\* leaves the block as an exception
ShopifyError == "Shopify update failed"
ShopifyWarning == "Failed to update Shopify order"

updateShopifyOrder_uncaught(up) == [raised |-> ~up, warn |-> ""]

updateShopifyOrder(up) ==
    [raised |-> FALSE, warn |-> IF up THEN "" ELSE ShopifyWarning]

\* what the caller of an operation sees after its Shopify update u
AfterShopify(ob, u) ==
    IF u.raised THEN [ob EXCEPT !.ok = FALSE, !.err = ShopifyError]
    ELSE [ob EXCEPT !.warn = u.warn]

Obs(act, shop, order, ok, err, calls) ==
    [NoObs EXCEPT !.act = act, !.shop = shop, !.order = order, !.ok = ok,
                  !.err = err, !.calls = calls]

shouldAutoSend(st, trigger) ==
    /\ st.exists
    /\ st.mode = "auto"
    /\ st.autoSendStatus = trigger

AllEntries == {"created", "paid", "manual", "bulk"}

Entries == IF app = "express" THEN AllEntries ELSE {"created", "paid"}

AlreadySent(L, shop, order) ==
    LET existing == findUnique(L, shop, order)
    IN  existing # NoRow /\ existing.shipmentId # NULL

\* the check each entry point makes before it calls sendOrderToDelifast:
\* "send", "skip" (nothing is done) or "reject" (the caller gets an error)
EntryDecision(entry, st, L, shop, order) ==
    CASE entry = "created" ->
            IF shouldAutoSend(st, "created") THEN "send" ELSE "skip"
      [] entry = "paid" ->
            IF AlreadySent(L, shop, order) THEN "skip"
            ELSE IF shouldAutoSend(st, "paid") THEN "send" ELSE "skip"
      [] entry = "manual" ->
            IF AlreadySent(L, shop, order) THEN "reject" ELSE "send"
      [] OTHER -> "send"

\* a new operation takes the first free slot
CanStart(p) ==
    /\ proc[p].pc = "idle"
    /\ \A q \in Procs : (q # p /\ proc[q].pc = "idle") => p = "p1"

(***************************************************************************)
(* Clock and settings                                                      *)
(***************************************************************************)
Tick ==
    /\ now < MaxTime
    /\ now' = now + 1
    /\ obs' = NoObs
    /\ UNCHANGED <<env, profile, res, partner, shopify, app, settings, tokenSeq, ledger, nextId, proc>>

Modes == {"manual", "auto"}
Triggers == {"created", "paid"}

\* PUT /settings/general (express) and the settings action (React-Router):
\* a new password clears the cached token in the express app only
SaveGeneralSettings(shop, username, newPassword, mode, autoSendStatus) ==
        /\ app = "remix" => settings[shop].exists
        /\ LET st == settings[shop]
               st1 == [st EXCEPT !.exists = TRUE,
                                 !.delifastUsername = username,
                                 !.mode = mode,
                                 !.autoSendStatus = autoSendStatus]
               st2 == IF newPassword
                      THEN IF app = "express"
                           THEN clearToken([st1 EXCEPT !.delifastPassword = TRUE])
                           ELSE [st1 EXCEPT !.delifastPassword = TRUE]
                      ELSE st1
           IN  settings' = [settings EXCEPT ![shop] = st2]
        /\ obs' = [NoObs EXCEPT !.act = "settings"]
        /\ UNCHANGED <<env, profile, res, partner, shopify, app, now, tokenSeq, ledger, nextId, proc>>

(***************************************************************************)
(* One authenticated request                                               *)
(***************************************************************************)
\* getCities: one makeRequest, its answer handed to the caller
GetCities(shop) ==
    \E r \in RequestResults(settings[shop], tokenSeq, now, "getCities") :
        /\ r.seq <= MaxLogins
        /\ settings' = [settings EXCEPT ![shop] = r.st]
        /\ tokenSeq' = r.seq
        /\ obs' = [NoObs EXCEPT !.act = "getCities", !.shop = shop, !.ok = r.ok, !.err = r.err,
                                !.calls = HttpCalls(r.trace), !.code = r.status,
                                !.trace = r.trace]
        /\ UNCHANGED <<env, profile, res, partner, shopify, app, now, ledger, nextId, proc>>

(***************************************************************************)
(* Send                                                                    *)
(***************************************************************************)
\* an entry point that decides not to call sendOrderToDelifast
SendSkipped(p, entry, shop, order) ==
    /\ CanStart(p)
    /\ entry \in Entries
    /\ LET d == EntryDecision(entry, settings[shop], ledger, shop, order) IN
       /\ d # "send"
       /\ obs' = [Obs("send_skipped", shop, order, d = "skip",
                      IF d = "reject" THEN "Order already sent to Delifast" ELSE "",
                      0) EXCEPT !.entry = entry]
    /\ UNCHANGED <<env, profile, res, partner, shopify, app, now, settings, tokenSeq, ledger, nextId, proc>>

\* sendOrderToDelifast up to the answer of createShipment
SendStart(p, entry, shop, order) ==
    /\ CanStart(p)
    /\ entry \in Entries
    /\ EntryDecision(entry, settings[shop], ledger, shop, order) = "send"
    /\ IF ~settings[shop].exists
       THEN /\ proc' = [proc EXCEPT ![p] =
                   [Idle EXCEPT !.pc = "send_catch", !.shop = shop,
                                !.order = order, !.err = "Store settings not found"]]
            /\ obs' = [Obs("send_start", shop, order, FALSE, "Store settings not found", 0)
                          EXCEPT !.entry = entry]
            /\ UNCHANGED <<settings, tokenSeq>>
       ELSE \E r \in RequestResults(settings[shop], tokenSeq, now, "createShipment") :
            LET cr == createShipment(r) IN
            /\ r.seq <= MaxLogins
            /\ settings' = [settings EXCEPT ![shop] = r.st]
            /\ tokenSeq' = r.seq
            /\ proc' = [proc EXCEPT ![p] =
                   [Idle EXCEPT !.pc = IF cr.ok THEN "send_save" ELSE "send_catch",
                                !.shop = shop, !.order = order,
                                !.cr = IF cr.ok THEN cr ELSE NoCreate,
                                !.err = cr.err]]
            /\ obs' = [Obs("send_start", shop, order, cr.ok, cr.err, HttpCalls(r.trace))
                          EXCEPT !.entry = entry]
    /\ UNCHANGED <<env, profile, res, partner, shopify, app, now, ledger, nextId>>

\* the record sendOrderToDelifast writes after a successful createShipment
SendData_fromResult(cr, order, t) ==
    [shipmentId |-> IF cr.shipmentId = NULL THEN generateTemporaryId(order, t)
                    ELSE cr.shipmentId,
     isTemporaryId |-> FALSE,
     status |-> "new",
     statusDetails |-> "Shipment created",
     nextLookupAt |-> NoTime]

SendData(cr, order, t) ==
    LET temporary == cr.shipmentId = NULL \/ cr.needsLookup
        shipmentId == IF temporary THEN generateTemporaryId(order, t)
                      ELSE cr.shipmentId
    IN  [shipmentId |-> shipmentId,
         isTemporaryId |-> temporary,
         status |-> "new",
         statusDetails |-> IF temporary THEN "Awaiting real shipment ID"
                           ELSE "Shipment created",
         nextLookupAt |-> IF temporary THEN t + sendLookupDelay ELSE NoTime]

SendSave(p) ==
    /\ proc[p].pc = "send_save"
    /\ LET me == proc[p]
           data == SendData(me.cr, me.order, now)
       IN  \/ /\ nextId <= MaxRows
              /\ ledger' = upsert(ledger, nextId, me.shop, me.order, now, data, data)
              /\ nextId' = IF Cardinality(ledger') = Cardinality(ledger)
                           THEN nextId ELSE nextId + 1
              /\ LET u == updateShopifyOrder(shopify = "up") IN
                 /\ proc' = [proc EXCEPT ![p] =
                        IF u.raised
                        THEN [me EXCEPT !.pc = "send_catch", !.cr = NoCreate,
                                        !.err = ShopifyError]
                        ELSE Idle]
                 /\ obs' = AfterShopify(Obs("send_save", me.shop, me.order,
                                            TRUE, "", 0), u)
           \/ \* the ledger write fails
              /\ proc' = [proc EXCEPT ![p] =
                     [me EXCEPT !.pc = "send_catch", !.cr = NoCreate,
                                !.err = "database error"]]
              /\ obs' = Obs("send_save_failed", me.shop, me.order, FALSE, "database error", 0)
              /\ UNCHANGED <<ledger, nextId>>
    /\ UNCHANGED <<env, profile, res, partner, shopify, app, now, settings, tokenSeq>>

ErrorData_statusOnly(err) == [status |-> "error"]

ErrorData(err) == [status |-> "error", statusDetails |-> err]

\* the catch block of sendOrderToDelifast: record the error, rethrow it
SendCatch(p) ==
    /\ proc[p].pc = "send_catch"
    /\ nextId <= MaxRows
    /\ LET me == proc[p] IN
       /\ ledger' = upsert(ledger, nextId, me.shop, me.order, now,
                           ErrorData(me.err), ErrorData(me.err))
       /\ nextId' = IF Cardinality(ledger') = Cardinality(ledger)
                    THEN nextId ELSE nextId + 1
       /\ proc' = [proc EXCEPT ![p] = Idle]
       /\ obs' = Obs("send_catch", me.shop, me.order, FALSE, me.err, 0)
    /\ UNCHANGED <<env, profile, res, partner, shopify, app, now, settings, tokenSeq>>

(***************************************************************************)
(* Refresh and manual ID correction                                        *)
(***************************************************************************)
Synthetic(st, seq) ==
    [st |-> st, seq |-> seq, ok |-> TRUE, status |-> "new",
     statusDetails |-> "Awaiting real shipment ID", success |-> FALSE,
     isTemporary |-> TRUE, err |-> "", calls |-> 0, attempts |-> 0]

\* getShipmentStatus: no partner call for an identifier of the temporary pattern
getShipmentStatus_alwaysAsks(st, seq, t, shipmentNo) ==
    getShipmentStatusResults(st, seq, t)

getShipmentStatus(st, seq, t, shipmentNo) ==
    IF isTemporaryId(shipmentNo) THEN {Synthetic(st, seq)}
    ELSE getShipmentStatusResults(st, seq, t)

StatusData(sr) == [status |-> sr.status, statusDetails |-> sr.statusDetails]

\* refreshOrderStatus on a row that exists; L is the ledger it reads
RefreshStep(L, row, shop, order, act, warned) ==
    IF row.isTemporaryId \/ isTemporaryId(row.shipmentId)
    THEN /\ ledger' = L
         /\ obs' = [Obs(act, shop, order, TRUE, "", 0) EXCEPT !.warn = warned]
         /\ UNCHANGED <<settings, tokenSeq>>
    ELSE \E sr \in getShipmentStatus(settings[shop], tokenSeq, now, row.shipmentId) :
         /\ sr.seq <= MaxLogins
         /\ settings' = [settings EXCEPT ![shop] = sr.st]
         /\ tokenSeq' = sr.seq
         /\ ledger' = IF sr.ok THEN update(L, row.id, StatusData(sr)) ELSE L
         /\ LET ob == [Obs(act, shop, order, sr.ok, sr.err, sr.calls)
                          EXCEPT !.warn = warned]
            IN  obs' = IF sr.ok
                       THEN AfterShopify(ob, updateShopifyOrder(shopify = "up"))
                       ELSE ob

NotFound(act, shop, order) ==
    /\ obs' = Obs(act, shop, order, FALSE, "Shipment not found", 0)
    /\ UNCHANGED <<settings, tokenSeq, ledger>>

RefreshOrderStatus(p, shop, order) ==
    /\ CanStart(p)
    /\ LET row == findUnique(ledger, shop, order) IN
       IF row = NoRow THEN NotFound("refresh", shop, order)
       ELSE RefreshStep(ledger, row, shop, order, "refresh", "")
    /\ UNCHANGED <<env, profile, res, partner, shopify, app, now, nextId, proc>>

\* what a manual ID correction writes: PUT /api/orders/:id/shipment-id in the
\* express app, updateShipmentId in the React-Router app
ManualData(newShipmentId) ==
    IF app = "express"
    THEN [shipmentId |-> newShipmentId, isTemporaryId |-> FALSE]
    ELSE [shipmentId |-> newShipmentId, isTemporaryId |-> FALSE,
          status |-> "new", statusDetails |-> NoDetails,
          lookupAttempts |-> 0, nextLookupAt |-> NoTime]

UpdateShipmentId(p, shop, order, newShipmentId) ==
    /\ CanStart(p)
    /\ LET row == findUnique(ledger, shop, order) IN
       IF row = NoRow THEN NotFound("manual_id", shop, order)
       ELSE LET L1 == update(ledger, row.id, ManualData(newShipmentId))
                \* the express route updates no metafields of its own
                u == updateShopifyOrder(app = "express" \/ shopify = "up")
            IN  IF u.raised
                THEN /\ ledger' = L1
                     /\ obs' = AfterShopify(Obs("manual_id", shop, order,
                                                TRUE, "", 0), u)
                     /\ UNCHANGED <<settings, tokenSeq>>
                ELSE RefreshStep(L1, findUnique(L1, shop, order), shop, order,
                                 "manual_id", u.warn)
    /\ UNCHANGED <<env, profile, res, partner, shopify, app, now, nextId, proc>>

(***************************************************************************)
(* Background jobs                                                         *)
(***************************************************************************)
Jobs == {"job_sync", "job_temp"}

Terminal == {"completed", "cancelled", "returned"}

RECURSIVE SortShops(_)
SortShops(S) ==
    IF S = {} THEN <<>>
    ELSE LET x == CHOOSE a \in S : TRUE IN <<x>> \o SortShops(S \ {x})

StoresWithCredentials ==
    SortShops({s \in DOMAIN settings : /\ settings[s].exists
                             /\ settings[s].delifastUsername
                             /\ settings[s].delifastPassword})

JobStart(p, job) ==
    /\ CanStart(p)
    /\ proc' = [proc EXCEPT ![p] =
           [Idle EXCEPT !.pc = job, !.stores = StoresWithCredentials]]
    /\ obs' = [NoObs EXCEPT !.act = "job_start"]
    /\ UNCHANGED <<env, profile, res, partner, shopify, app, now, settings, tokenSeq, ledger, nextId>>

JobEnd(p) ==
    /\ proc[p].pc \in Jobs \cup {"job_check"}
    /\ proc[p].stores = <<>>
    /\ proc[p].queue = <<>>
    /\ proc' = [proc EXCEPT ![p] = Idle]
    /\ obs' = [NoObs EXCEPT !.act = "job_end"]
    /\ UNCHANGED <<env, profile, res, partner, shopify, app, now, settings, tokenSeq, ledger, nextId>>

\* the rows syncStoreStatuses selects
SyncWhere_noStatusFilter(row) ==
    /\ ~row.isTemporaryId
    /\ row.shipmentId # NULL

SyncWhere(row) ==
    /\ ~row.isTemporaryId
    /\ row.shipmentId # NULL
    /\ IF app = "express"
       THEN row.status \notin {"completed", "cancelled", "returned", "not_found"}
       ELSE row.status \notin {"completed", "cancelled", "returned", "error"}

SyncSelect_withoutId(shop) ==
    LET q == SortById({r \in ledger : /\ r.shop = shop
                                      /\ SyncWhere([r EXCEPT !.shipmentId = RealA])})
    IN  IF app = "express" THEN Take(q, syncBatch) ELSE q

SyncSelect(shop) ==
    LET q == SortById({r \in ledger : r.shop = shop /\ SyncWhere(r)})
    IN  IF app = "express" THEN Take(q, syncBatch) ELSE q

\* the rows updateStoreTempIds selects
TempWhere_ignoringSchedule(row, t) ==
    /\ row.isTemporaryId
    /\ row.lookupAttempts < maxLookupAttempts

TempWhere(row, t) ==
    /\ row.isTemporaryId
    /\ row.lookupAttempts < maxLookupAttempts
    /\ row.nextLookupAt = NoTime \/ row.nextLookupAt <= t

TempSelectUpTo(shop, batch) ==
    LET q == SortById({r \in ledger : r.shop = shop /\ TempWhere(r, now)})
    IN  IF app = "express" THEN Take(q, batch) ELSE q

TempSelect(shop) == TempSelectUpTo(shop, tempIdBatch)

SyncBegin(p) ==
    /\ proc[p].pc = "job_sync"
    /\ proc[p].queue = <<>>
    /\ proc[p].stores # <<>>
    /\ LET shop == Head(proc[p].stores) IN
       /\ proc' = [proc EXCEPT ![p].shop = shop,
                               ![p].stores = Tail(proc[p].stores),
                               ![p].queue = SyncSelect(shop)]
       /\ obs' = [NoObs EXCEPT !.act = "sync_begin"]
    /\ UNCHANGED <<env, profile, res, partner, shopify, app, now, settings, tokenSeq, ledger, nextId>>

TempStart(p, batch) ==
    /\ proc[p].queue = <<>>
    /\ proc[p].stores # <<>>
    /\ LET shop == Head(proc[p].stores) IN
       /\ proc' = [proc EXCEPT ![p].shop = shop,
                               ![p].stores = Tail(proc[p].stores),
                               ![p].queue = TempSelectUpTo(shop, batch)]
       /\ obs' = [NoObs EXCEPT !.act = "temp_begin"]
    /\ UNCHANGED <<env, profile, res, partner, shopify, app, now, settings, tokenSeq, ledger, nextId>>

TempBegin(p) ==
    /\ proc[p].pc = "job_temp"
    /\ TempStart(p, tempIdBatch)

\* one iteration of the loop of syncStoreStatuses; shipment is the selected row
SyncWrites(shipment, sr) ==
    IF app = "express"
    THEN sr.ok /\ sr.status # shipment.status
    ELSE sr.ok /\ sr.success /\ sr.status # shipment.status

\* partner holds the answers getShipmentStatus has given so far, one per
\* shipment number, for the runs in which the partner's answers do not change
Answer(shipmentNo, sr) ==
    [no |-> shipmentNo, ok |-> sr.ok, success |-> sr.success,
     status |-> sr.status, statusDetails |-> sr.statusDetails]

SameAnswer(shipmentNo, sr) ==
    \A a \in partner : a.no = shipmentNo => a = Answer(shipmentNo, sr)

\* unchanged: the partner repeats the answers it has given (and they are
\* recorded); otherwise it answers anything
SyncStep(p, unchanged) ==
    /\ proc[p].queue # <<>>
    /\ LET shipment == Head(proc[p].queue)
           shop == proc[p].shop
           ob == Obs("sync_item", shop, shipment.shopifyOrderId, TRUE, "", 0)
       IN  IF app = "express" /\ isTemporaryId(shipment.shipmentId)
           THEN /\ obs' = ob
                /\ UNCHANGED <<settings, tokenSeq, ledger, partner>>
           ELSE \E sr \in getShipmentStatus(settings[shop], tokenSeq, now,
                                            shipment.shipmentId) :
                /\ unchanged => SameAnswer(shipment.shipmentId, sr)
                /\ sr.seq <= MaxLogins
                /\ settings' = [settings EXCEPT ![shop] = sr.st]
                /\ tokenSeq' = sr.seq
                /\ ledger' = IF SyncWrites(shipment, sr)
                             THEN update(ledger, shipment.id, StatusData(sr))
                             ELSE ledger
                /\ partner' = IF unchanged
                              THEN partner \cup {Answer(shipment.shipmentId, sr)}
                              ELSE partner
                /\ LET ob2 == [ob EXCEPT !.ok = sr.ok, !.err = sr.err,
                                         !.calls = sr.calls]
                   IN  obs' = IF app = "express" /\ SyncWrites(shipment, sr)
                              THEN AfterShopify(ob2, updateShopifyOrder(shopify = "up"))
                              ELSE ob2
    /\ proc' = [proc EXCEPT ![p].queue = Tail(proc[p].queue)]
    /\ UNCHANGED <<env, profile, res, shopify, app, now, nextId>>

\* the partner answers anything
SyncItem(p) ==
    /\ proc[p].pc = "job_sync"
    /\ SyncStep(p, FALSE)

\* the partner gives the answer it gave before for the same shipment
SyncItemSameAnswers(p) ==
    /\ proc[p].pc = "job_sync"
    /\ SyncStep(p, TRUE)

\* one iteration of the loop of updateStoreTempIds
Found(shipment, realShipmentId) ==
    IF app = "express"
    THEN realShipmentId # NULL /\ realShipmentId # shipment.shipmentId
    ELSE realShipmentId # NULL /\ ~isTemporaryId(realShipmentId)

PromoteData(shipment, realShipmentId, t) ==
    IF app = "express"
    THEN [shipmentId |-> realShipmentId, isTemporaryId |-> FALSE,
          status |-> "new", statusDetails |-> "Real shipment ID received",
          lookupAttempts |-> 0, nextLookupAt |-> NoTime, lastLookupAt |-> t]
    ELSE [shipmentId |-> realShipmentId, isTemporaryId |-> FALSE,
          lookupAttempts |-> shipment.lookupAttempts + 1,
          lastLookupAt |-> t, nextLookupAt |-> NoTime]

ManualNotice == "Could not retrieve real shipment ID. Please update manually."

NotFoundData_sameAttempts(shipment, t) ==
    [lookupAttempts |-> shipment.lookupAttempts, lastLookupAt |-> t,
     nextLookupAt |-> t + lookupIntervalMinutes]

NotFoundData(shipment, t) ==
    LET nextAttempt == shipment.lookupAttempts + 1 IN
    IF app = "express"
    THEN IF nextAttempt < maxLookupAttempts
         THEN [lookupAttempts |-> nextAttempt, lastLookupAt |-> t,
               nextLookupAt |-> t + lookupIntervalMinutes]
         ELSE [lookupAttempts |-> nextAttempt, lastLookupAt |-> t,
               nextLookupAt |-> NoTime, statusDetails |-> ManualNotice]
    ELSE [lookupAttempts |-> nextAttempt, lastLookupAt |-> t,
          nextLookupAt |-> t + lookupIntervalMinutes]

TempStep(p, logs) ==
    /\ proc[p].queue # <<>>
    /\ LET shipment == Head(proc[p].queue)
           shop == proc[p].shop
       IN  \E lr \in lookupByOrderNumberResults(settings[shop], tokenSeq, now) :
           /\ lr.seq <= MaxLogins
           /\ settings' = [settings EXCEPT ![shop] = lr.st]
           /\ tokenSeq' = lr.seq
           /\ ledger' = IF lr.raised THEN ledger
                        ELSE update(ledger, shipment.id,
                                    IF Found(shipment, lr.id)
                                    THEN PromoteData(shipment, lr.id, now)
                                    ELSE NotFoundData(shipment, now))
           /\ LET ob == [Obs("temp_item", shop, shipment.shopifyOrderId,
                              ~lr.raised /\ Found(shipment, lr.id), "", lr.calls)
                            EXCEPT !.warn = IF logs THEN lr.logged ELSE ""]
              IN  obs' = IF app = "express" /\ ~lr.raised /\ Found(shipment, lr.id)
                         THEN AfterShopify(ob, updateShopifyOrder(shopify = "up"))
                         ELSE ob
    /\ proc' = [proc EXCEPT ![p].queue = Tail(proc[p].queue)]
    /\ UNCHANGED <<env, profile, res, partner, shopify, app, now, nextId>>

TempItem(p) ==
    /\ proc[p].pc = "job_temp"
    /\ TempStep(p, FALSE)

\* the same iteration, with the error that lookupByOrderNumber logs kept in
\* obs.warn
TempItemLogged(p) ==
    /\ proc[p].pc = "job_temp"
    /\ TempStep(p, TRUE)

(***************************************************************************)
(* Specification of Send: one store with credentials and a cached token,   *)
(* one order, one handler at a time                                        *)
(***************************************************************************)
Configured(mode, trigger) ==
    [NoSettings EXCEPT !.exists = TRUE, !.delifastUsername = TRUE,
                       !.delifastPassword = TRUE, !.mode = mode,
                       !.autoSendStatus = trigger]

\* a store whose token was issued just before the run starts
LoggedIn(mode, trigger) ==
    setToken(Configured(mode, trigger), MaxLogins - 1, 0)

Handlers == {"p1"}

\* the express app answers requests for a store that never saved settings;
\* in the React-Router app the logger creates the StoreSettings row first
Init ==
    /\ env = [JOB_SECRET |-> JobSecret]
    /\ res = [p \in Procs |-> NoResponse]
    /\ partner = {}
    /\ shopify = "up"
    /\ profile = NoProfile
    /\ app \in Apps
    /\ now = 0
    /\ \/ \E trigger \in Triggers :
             settings = [s \in Shops |-> LoggedIn("auto", trigger)]
       \/ /\ app = "express"
          /\ settings = [s \in Shops |-> NoSettings]
    /\ tokenSeq = MaxLogins - 1
    /\ ledger = {}
    /\ nextId = 1
    /\ proc = [p \in Procs |-> Idle]
    /\ obs = NoObs

Next ==
    \/ Tick
    \/ \E p \in Handlers, entry \in AllEntries, shop \in Shops, order \in Orders :
          SendSkipped(p, entry, shop, order)
    \/ \E p \in Handlers, entry \in AllEntries, shop \in Shops, order \in Orders :
          SendStart(p, entry, shop, order)
    \/ \E p \in Handlers : SendSave(p)
    \/ \E p \in Handlers : SendCatch(p)

Spec == Init /\ [][Next]_vars

(***************************************************************************)
(* Specification of the token cache: one store, its credentials and its    *)
(* cached token in any state, requests one after the other                 *)
(***************************************************************************)
\* a token issued before the run starts expires within tokenExpiryHours
InitToken ==
    /\ env = [JOB_SECRET |-> JobSecret]
    /\ res = [p \in Procs |-> NoResponse]
    /\ partner = {}
    /\ shopify = "up"
    /\ profile = NoProfile
    /\ app \in Apps
    /\ now = 0
    /\ \/ /\ tokenSeq = 0
          /\ settings = [s \in Shops |-> Configured("manual", "paid")]
       \/ /\ tokenSeq = 1
          /\ \E e \in 1..tokenExpiryHours :
                settings = [s \in Shops |->
                    [Configured("manual", "paid") EXCEPT !.apiToken = 1,
                                                         !.tokenExpiry = e]]
    /\ ledger = {}
    /\ nextId = 1
    /\ proc = [p \in Procs |-> Idle]
    /\ obs = NoObs

NextToken ==
    \/ Tick
    \/ \E shop \in Shops, username \in BOOLEAN, newPassword \in BOOLEAN :
          SaveGeneralSettings(shop, username, newPassword,
                              settings[shop].mode, settings[shop].autoSendStatus)
    \/ \E shop \in Shops : GetCities(shop)

SpecToken == InitToken /\ [][NextToken]_vars

(***************************************************************************)
(* Specification of login: the token specification with the connection     *)
(* test, which calls login directly                                        *)
(***************************************************************************)
\* POST /api/test-connection -> testConnection -> login
TestConnection(shop, lo) ==
    LET lg == login(settings[shop], tokenSeq, now, lo) IN
    /\ lg.seq <= MaxLogins
    /\ settings' = [settings EXCEPT ![shop] = lg.st]
    /\ tokenSeq' = lg.seq
    /\ obs' = [NoObs EXCEPT !.act = "testConnection", !.shop = shop,
                            !.ok = lg.ok, !.err = lg.err, !.trace = lg.trace]
    /\ UNCHANGED <<env, profile, res, partner, shopify, app, now, ledger, nextId, proc>>

NextLogin ==
    \/ Tick
    \/ \E shop \in Shops, username \in BOOLEAN, newPassword \in BOOLEAN :
          SaveGeneralSettings(shop, username, newPassword,
                              settings[shop].mode, settings[shop].autoSendStatus)
    \/ \E shop \in Shops : GetCities(shop)
    \/ \E shop \in Shops, lo \in LoginOutcomes : TestConnection(shop, lo)

SpecLogin == InitToken /\ [][NextLogin]_vars

(***************************************************************************)
(* Specification of the sender profile: the login specification with the   *)
(* sender settings form and a partner account whose login response carries *)
(* any subset of the sender fields                                         *)
(***************************************************************************)
\* PUT /settings/sender: a field left out of the body is not written
SaveSenderSettings(shop, name, address) ==
    /\ name \/ address
    /\ settings' = [settings EXCEPT
            ![shop] = [@ EXCEPT !.exists = TRUE,
                                !.senderName = IF name THEN "merchant" ELSE @,
                                !.senderAddress = IF address THEN "merchant" ELSE @]]
    /\ obs' = [NoObs EXCEPT !.act = "senderSettings", !.shop = shop]
    /\ UNCHANGED <<env, profile, res, partner, shopify, app, now, tokenSeq, ledger,
                   nextId, proc>>

InitSender ==
    /\ env = [JOB_SECRET |-> JobSecret]
    /\ res = [p \in Procs |-> NoResponse]
    /\ partner = {}
    /\ shopify = "up"
    /\ profile \in Profiles
    /\ app \in Apps
    /\ now = 0
    /\ tokenSeq = 0
    /\ settings = [s \in Shops |-> Configured("manual", "paid")]
    /\ ledger = {}
    /\ nextId = 1
    /\ proc = [p \in Procs |-> Idle]
    /\ obs = NoObs

NextSender ==
    \/ Tick
    \/ \E shop \in Shops, name \in BOOLEAN, address \in BOOLEAN :
          SaveSenderSettings(shop, name, address)
    \/ \E shop \in Shops : GetCities(shop)
    \/ \E shop \in Shops, lo \in LoginOutcomes : TestConnection(shop, lo)

SpecSender == InitSender /\ [][NextSender]_vars

(***************************************************************************)
(* Specification of concurrent logins: login awaits the partner's answer   *)
(* and then awaits the write of the token, and two operations of one store *)
(* run ensureValidToken side by side                                       *)
(***************************************************************************)
\* ensureValidToken up to the answer of the login call: the operation found
\* no usable token, or one that expires soon
LoginPost(p, shop, lo) ==
    LET st == settings[shop]
        lg == login(st, tokenSeq, now, lo)
    IN  /\ CanStart(p)
        /\ getToken(st, now) = NoToken \/ NeedsRefresh(st, now)
        /\ lg.seq <= MaxLogins
        /\ tokenSeq' = lg.seq
        /\ proc' = [proc EXCEPT ![p] =
               IF lg.ok THEN [Idle EXCEPT !.pc = "login", !.shop = shop,
                                          !.token = lg.token]
               ELSE Idle]
        /\ obs' = [NoObs EXCEPT !.act = "login_post", !.shop = shop,
                                !.ok = lg.ok, !.err = lg.err, !.trace = lg.trace]
        /\ UNCHANGED <<env, profile, res, partner, shopify, app, now, settings,
                       ledger, nextId>>

\* setToken and the sender update with the token of the answer
LoginSave(p) ==
    /\ proc[p].pc = "login"
    /\ LET shop == proc[p].shop IN
       /\ settings' = [settings EXCEPT ![shop] =
               saveSenderInfo(setToken(@, proc[p].token, now), profile)]
       /\ obs' = [NoObs EXCEPT !.act = "login_save", !.shop = shop,
                               !.trace = <<Ev("setToken", proc[p].token, 0)>>]
    /\ proc' = [proc EXCEPT ![p] = Idle]
    /\ UNCHANGED <<env, profile, res, partner, shopify, app, now, tokenSeq, ledger,
                   nextId>>

NextRace ==
    \/ Tick
    \/ \E p \in Procs, shop \in Shops, lo \in LoginOutcomes : LoginPost(p, shop, lo)
    \/ \E p \in Procs : LoginSave(p)

SpecRace == InitToken /\ [][NextRace]_vars

(***************************************************************************)
(* Specification of the jobs: one store, one order already in the ledger   *)
(* in a state Send leaves it in, jobs and manual actions one after the     *)
(* other                                                                   *)
(***************************************************************************)
SentRows(shop, order) ==
    { Merge(DefaultRow(1, shop, order, 0), SendData(cr, order, 0)) :
        cr \in { createShipment(Resp(NoSettings, 0, TRUE, b, "", 200, <<>>)) :
                   b \in {x \in CreateBodies : x.kind # "fail"} } }

InitJobs ==
    /\ env = [JOB_SECRET |-> JobSecret]
    /\ res = [p \in Procs |-> NoResponse]
    /\ partner = {}
    /\ shopify = "up"
    /\ profile = NoProfile
    /\ app \in Apps
    /\ now = 0
    /\ settings = [s \in Shops |-> LoggedIn("manual", "paid")]
    /\ tokenSeq = MaxLogins - 1
    /\ \E row \in UNION {SentRows(s, o) : s \in Shops, o \in Orders} :
          ledger = {row}
    /\ nextId = 2
    /\ proc = [p \in Procs |-> Idle]
    /\ obs = NoObs

NextJobs ==
    \/ Tick
    \/ \E p \in Handlers, shop \in Shops, order \in Orders :
          RefreshOrderStatus(p, shop, order)
    \/ \E p \in Handlers, shop \in Shops, order \in Orders, id \in ManualIds :
          UpdateShipmentId(p, shop, order, id)
    \/ \E p \in Handlers, job \in Jobs : JobStart(p, job)
    \/ \E p \in Handlers : SyncBegin(p)
    \/ \E p \in Handlers : SyncItem(p)
    \/ \E p \in Handlers : TempBegin(p)
    \/ \E p \in Handlers : TempItem(p)
    \/ \E p \in Handlers : JobEnd(p)

SpecJobs == InitJobs /\ [][NextJobs]_vars

(***************************************************************************)
(* Specification of a backlog: one store with more temporary shipments     *)
(* than one pass selects, the Temp-ID job run again and again by cron.     *)
(* The batch of 50 is scaled to 1.  The clock is coarser than the cron     *)
(* schedule: it moves on only when no row is due for a lookup.             *)
(***************************************************************************)
smallBatch == 1

BacklogSize == smallBatch + 1

BacklogIds == 1..BacklogSize

BacklogOrder(id) == IF id = 1 THEN "o1" ELSE "o2"

BacklogRows(id, shop) ==
    { [r EXCEPT !.id = id] :
        r \in {x \in SentRows(shop, BacklogOrder(id)) : x.isTemporaryId} }

InitBacklog ==
    /\ env = [JOB_SECRET |-> JobSecret]
    /\ res = [p \in Procs |-> NoResponse]
    /\ partner = {}
    /\ shopify = "up"
    /\ profile = NoProfile
    /\ app \in Apps
    /\ now = 0
    /\ settings = [s \in Shops |-> LoggedIn("manual", "paid")]
    /\ tokenSeq = MaxLogins - 1
    /\ \E rows \in [BacklogIds -> UNION {BacklogRows(id, "s1") : id \in BacklogIds}] :
          /\ \A id \in BacklogIds : rows[id] \in BacklogRows(id, "s1")
          /\ ledger = {rows[id] : id \in BacklogIds}
    /\ nextId = BacklogSize + 1
    /\ proc = [p \in Procs |-> Idle]
    /\ obs = NoObs

TempBeginSmallBatch(p) ==
    /\ proc[p].pc = "job_temp"
    /\ TempStart(p, smallBatch)

TickBetweenPasses ==
    /\ \A r \in ledger : ~TempWhere(r, now)
    /\ Tick

CronTemp(p) ==
    \/ JobStart(p, "job_temp")
    \/ TempBeginSmallBatch(p)
    \/ TempItemLogged(p)
    \/ JobEnd(p)

NextBacklog ==
    \/ TickBetweenPasses
    \/ \E p \in Handlers : CronTemp(p)

\* cron starts a pass again and again, a started pass runs to its end, and
\* the clock keeps moving
SpecBacklog ==
    /\ InitBacklog
    /\ [][NextBacklog]_vars
    /\ WF_vars(TickBetweenPasses)
    /\ \A p \in Handlers : WF_vars(CronTemp(p))

(***************************************************************************)
(* Specification of a manual correction during a Temp-ID pass: the pass    *)
(* runs in the first slot, the correction arrives while it holds the rows  *)
(* it selected                                                             *)
(***************************************************************************)
CorrectDuringPass(p, shop, order, newShipmentId) ==
    /\ \E q \in Procs : proc[q].pc = "job_temp" /\ proc[q].queue # <<>>
    /\ UpdateShipmentId(p, shop, order, newShipmentId)

NextCorrection ==
    \/ TickBetweenPasses
    \/ \E p \in Handlers : CronTemp(p)
    \/ \E p \in Procs \ Handlers, shop \in Shops, order \in Orders, id \in ManualIds :
          CorrectDuringPass(p, shop, order, id)

SpecCorrection == InitJobs /\ [][NextCorrection]_vars

(***************************************************************************)
(* The stuck-order sweep (checkPendingOrders, checkAllPendingOrders) and   *)
(* its specification over two stores and two orders                        *)
(***************************************************************************)
Tenants == {"s1", "s2"}

SweepOrders == {"o1", "o2"}

\* 24 hours and 2 hours, in ticks
stuckCutoff == 5

overdueCutoff == 3

\* the clock reading at which the sweep of this specification runs
SweepNow == MaxTime + stuckCutoff

recentErrorBatch == 10

StuckNotice == "Unable to find real shipment ID after maximum attempts. Please update manually."

RetryNotice == "Scheduled for retry after error"

\* the rows checkStorePendingOrders selects as stuck
StuckWhere(row, t) ==
    IF app = "express"
    THEN /\ row.isTemporaryId
         /\ row.lookupAttempts < maxLookupAttempts
         /\ \/ row.lastLookupAt = NoTime /\ row.nextLookupAt = NoTime
            \/ row.nextLookupAt # NoTime /\ row.nextLookupAt < t - overdueCutoff
    ELSE /\ row.status = "new"
         /\ row.isTemporaryId
         /\ row.sentAt # NoTime /\ row.sentAt < t - stuckCutoff
         /\ row.lookupAttempts >= maxLookupAttempts

StuckSelect(L, shop, t) ==
    SortById({r \in L : r.shop = shop /\ StuckWhere(r, t)})

StuckData(t) ==
    IF app = "express"
    THEN [nextLookupAt |-> t]
    ELSE [status |-> "error", statusDetails |-> StuckNotice]

\* the recent error rows the Express sweep resets after its first loop
ErrorSelect(L, shop, t) ==
    Take(SortById({r \in L : /\ r.shop = shop
                             /\ r.status = "error"
                             /\ r.createdAt > t - stuckCutoff}),
         recentErrorBatch)

\* checkStorePendingOrders up to its first loop; a failed query is an
\* exception that the loop over the stores catches
CheckBegin(p) ==
    /\ proc[p].pc = "job_check"
    /\ proc[p].queue = <<>>
    /\ proc[p].stores # <<>>
    /\ \E dbOk \in BOOLEAN :
       LET shop == Head(proc[p].stores) IN
       /\ proc' = [proc EXCEPT ![p].shop = shop,
                               ![p].stores = Tail(proc[p].stores),
                               ![p].queue = IF dbOk
                                            THEN StuckSelect(ledger, shop, now)
                                            ELSE <<>>]
       /\ obs' = Obs("check_begin", shop, "", dbOk,
                     IF dbOk THEN "" ELSE "database error", 0)
    /\ UNCHANGED <<env, profile, res, partner, shopify, app, now, settings, tokenSeq, ledger, nextId>>

\* one iteration of the first loop: no try around the update, so a failed
\* update leaves checkStorePendingOrders; after the last iteration the
\* Express sweep selects the recent error rows
CheckItem(p) ==
    /\ proc[p].pc = "job_check"
    /\ proc[p].queue # <<>>
    /\ \E dbOk \in BOOLEAN :
       LET shipment == Head(proc[p].queue)
           shop == proc[p].shop
           L == IF dbOk THEN update(ledger, shipment.id, StuckData(now))
                ELSE ledger
           rest == Tail(proc[p].queue)
           more == IF dbOk /\ app = "express" /\ rest = <<>>
                   THEN ErrorSelect(L, shop, now) ELSE <<>>
       IN  /\ ledger' = L
           /\ proc' = [proc EXCEPT
                  ![p].queue = IF ~dbOk THEN <<>>
                               ELSE IF rest # <<>> THEN rest ELSE more,
                  ![p].pc = IF dbOk /\ rest = <<>> /\ more # <<>>
                            THEN "job_check_errors" ELSE "job_check"]
           /\ obs' = Obs("check_item", shop, shipment.shopifyOrderId, dbOk,
                         IF dbOk THEN "" ELSE "database error", 0)
    /\ UNCHANGED <<env, profile, res, partner, shopify, app, now, settings, tokenSeq, nextId>>

\* one iteration of the second loop of the Express sweep
CheckErrorItem(p) ==
    /\ proc[p].pc = "job_check_errors"
    /\ proc[p].queue # <<>>
    /\ \E dbOk \in BOOLEAN :
       LET shipment == Head(proc[p].queue)
           rest == Tail(proc[p].queue)
       IN  /\ ledger' = IF dbOk
                        THEN update(ledger, shipment.id,
                                    [status |-> "new",
                                     statusDetails |-> RetryNotice])
                        ELSE ledger
           /\ proc' = [proc EXCEPT
                  ![p].queue = IF dbOk THEN rest ELSE <<>>,
                  ![p].pc = IF dbOk /\ rest # <<>>
                            THEN "job_check_errors" ELSE "job_check"]
           /\ obs' = Obs("check_error_item", proc[p].shop,
                         shipment.shopifyOrderId, dbOk,
                         IF dbOk THEN "" ELSE "database error", 0)
    /\ UNCHANGED <<env, profile, res, partner, shopify, app, now, settings, tokenSeq, nextId>>

\* rows as the operations leave them by SweepNow: a pending row whose
\* lookup is overdue, a row whose lookups are used up, a row of a failed
\* Send, a row with a real ID
SweepRows(id, shop, order) ==
    LET base == [DefaultRow(id, shop, order, 0) EXCEPT
                    !.shipmentId = generateTemporaryId(order, 0),
                    !.isTemporaryId = TRUE,
                    !.nextLookupAt = sendLookupDelay]
        stamp(sentAt, createdAt) ==
            [f \in {"sentAt", "createdAt"} |->
                IF f = "sentAt" THEN sentAt ELSE createdAt]
    IN  { base @@ stamp(0, 0),
          Merge(base, IF app = "express"
                      THEN [lookupAttempts |-> maxLookupAttempts,
                            lastLookupAt |-> 4, nextLookupAt |-> NoTime,
                            statusDetails |-> ManualNotice]
                      ELSE [lookupAttempts |-> maxLookupAttempts,
                            lastLookupAt |-> 4,
                            nextLookupAt |-> 4 + lookupIntervalMinutes])
             @@ stamp(0, 0),
          Merge(DefaultRow(id, shop, order, 6),
                [status |-> "error", statusDetails |-> "HTTP Error: 500"])
             @@ stamp(NoTime, 6),
          Merge(DefaultRow(id, shop, order, 6),
                [shipmentId |-> RealA, status |-> "new"])
             @@ stamp(6, 6) }

InitSweep ==
    /\ env = [JOB_SECRET |-> JobSecret]
    /\ res = [p \in Procs |-> NoResponse]
    /\ partner = {}
    /\ shopify = "up"
    /\ profile = NoProfile
    /\ app \in Apps
    /\ now = SweepNow
    /\ settings = [s \in Tenants |->
                     setToken(Configured("manual", "paid"), MaxLogins - 1, SweepNow)]
    /\ tokenSeq = MaxLogins - 1
    /\ \E r1 \in SweepRows(1, "s1", "o1"), r2 \in SweepRows(2, "s1", "o2"),
          r3 \in SweepRows(3, "s2", "o1") :
          ledger = {r1, r2, r3}
    /\ nextId = 4
    /\ proc = [p \in Procs |-> Idle]
    /\ obs = NoObs

NextSweep ==
    \/ \E p \in Handlers : JobStart(p, "job_check")
    \/ \E p \in Handlers : CheckBegin(p)
    \/ \E p \in Handlers : CheckItem(p)
    \/ \E p \in Handlers : CheckErrorItem(p)
    \/ \E p \in Handlers : JobEnd(p)

SpecSweep == InitSweep /\ [][NextSweep]_vars

(***************************************************************************)
(* The job trigger endpoints of the Remix deployment and their             *)
(* specification: one store, one shipment row, each of the three jobs      *)
(***************************************************************************)
Bearer(secret) == <<"Bearer", secret>>

\* the Authorization header of a request: absent, the secret as bearer
\* value, another bearer value, the secret without the scheme
AuthHeaders == {NULL, Bearer(JobSecret), Bearer("guess"), <<JobSecret>>}

\* the guard of the routes' action
Unauthorized(authHeader) ==
    env.JOB_SECRET # NoSecret /\ authHeader # Bearer(env.JOB_SECRET)

JobTrigger(p, job, authHeader) ==
    /\ app = "remix"
    /\ CanStart(p)
    /\ IF Unauthorized(authHeader)
       THEN /\ obs' = [NoObs EXCEPT !.act = "job_trigger", !.entry = job,
                                    !.ok = FALSE, !.err = "Unauthorized",
                                    !.code = 401]
            /\ proc' = proc
       ELSE /\ obs' = [NoObs EXCEPT !.act = "job_trigger", !.entry = job]
            /\ proc' = [proc EXCEPT ![p] =
                   [Idle EXCEPT !.pc = job, !.stores = StoresWithCredentials]]
    /\ UNCHANGED <<env, profile, res, partner, shopify, app, now, settings, tokenSeq, ledger, nextId>>

InitTrigger ==
    /\ env \in {[JOB_SECRET |-> v] : v \in {NoSecret, JobSecret}}
    /\ res = [p \in Procs |-> NoResponse]
    /\ partner = {}
    /\ shopify = "up"
    /\ profile = NoProfile
    /\ app = "remix"
    /\ now = SweepNow
    /\ settings = [s \in Shops |->
                     setToken(Configured("manual", "paid"), MaxLogins - 1, SweepNow)]
    /\ tokenSeq = MaxLogins - 1
    /\ \E r1 \in SweepRows(1, "s1", "o1") : ledger = {r1}
    /\ nextId = 2
    /\ proc = [p \in Procs |-> Idle]
    /\ obs = NoObs

NextTrigger ==
    \/ \E p \in Handlers, job \in Jobs \cup {"job_check"}, h \in AuthHeaders :
          JobTrigger(p, job, h)
    \/ \E p \in Handlers : SyncBegin(p)
    \/ \E p \in Handlers : SyncItem(p)
    \/ \E p \in Handlers : TempBegin(p)
    \/ \E p \in Handlers : TempItem(p)
    \/ \E p \in Handlers : CheckBegin(p)
    \/ \E p \in Handlers : CheckItem(p)
    \/ \E p \in Handlers : JobEnd(p)

SpecTrigger == InitTrigger /\ [][NextTrigger]_vars

(***************************************************************************)
(* Specification of a store whose credentials are edited while it has a    *)
(* shipment row and a cached token                                         *)
(***************************************************************************)
HasCredentials(st) ==
    st.exists /\ st.delifastUsername /\ st.delifastPassword

NextCreds ==
    \/ \E shop \in Shops, username \in BOOLEAN, newPassword \in BOOLEAN :
          SaveGeneralSettings(shop, username, newPassword,
                              settings[shop].mode, settings[shop].autoSendStatus)
    \/ \E p \in Handlers, shop \in Shops, order \in Orders :
          RefreshOrderStatus(p, shop, order)
    \/ \E p \in Handlers, shop \in Shops, order \in Orders, id \in ManualIds :
          UpdateShipmentId(p, shop, order, id)
    \/ \E p \in Handlers : JobStart(p, "job_sync")
    \/ \E p \in Handlers : SyncBegin(p)
    \/ \E p \in Handlers : SyncItem(p)
    \/ \E p \in Handlers : JobEnd(p)

SpecCreds == InitJobs /\ [][NextCreds]_vars

(***************************************************************************)
(* Specification of two stores side by side: each has credentials, a       *)
(* cached token and one shipment row                                       *)
(***************************************************************************)
InitTenants ==
    /\ env = [JOB_SECRET |-> JobSecret]
    /\ res = [p \in Procs |-> NoResponse]
    /\ partner = {}
    /\ shopify = "up"
    /\ profile = NoProfile
    /\ app \in Apps
    /\ now = 0
    /\ settings = [s \in Tenants |-> LoggedIn("manual", "paid")]
    /\ tokenSeq = MaxLogins - 1
    /\ \E r1 \in SentRows("s1", "o1"), r2 \in SentRows("s2", "o1") :
          /\ r2.shipmentId = RealA
          /\ ledger = {r1, [r2 EXCEPT !.id = 2]}
    /\ nextId = 3
    /\ proc = [p \in Procs |-> Idle]
    /\ obs = NoObs

NextTenants ==
    \/ \E p \in Handlers, shop \in Tenants, order \in Orders :
          RefreshOrderStatus(p, shop, order)
    \/ \E p \in Handlers : JobStart(p, "job_sync")
    \/ \E p \in Handlers : SyncBegin(p)
    \/ \E p \in Handlers : SyncItem(p)
    \/ \E p \in Handlers : JobEnd(p)

SpecTenants == InitTenants /\ [][NextTenants]_vars

(***************************************************************************)
(* Text as the mappers see it: a string is a sequence of characters        *)
(***************************************************************************)
UpperCase == <<"A", "B", "C", "D", "E", "F", "G", "H", "I", "J", "K", "L", "M",
               "N", "O", "P", "Q", "R", "S", "T", "U", "V", "W", "X", "Y", "Z">>

LowerCase == <<"a", "b", "c", "d", "e", "f", "g", "h", "i", "j", "k", "l", "m",
               "n", "o", "p", "q", "r", "s", "t", "u", "v", "w", "x", "y", "z">>

toLowerCase(str) ==
    [i \in 1..Len(str) |->
        IF \E k \in 1..Len(UpperCase) : UpperCase[k] = str[i]
        THEN LowerCase[CHOOSE k \in 1..Len(UpperCase) : UpperCase[k] = str[i]]
        ELSE str[i]]

includes(str, part) ==
    \E i \in 0..(Len(str) - Len(part)) :
        \A k \in 1..Len(part) : str[i + k] = part[k]

(***************************************************************************)
(* The payment fields of prepareOrderDataForDelifast and their             *)
(* specification: one order is received and mapped                         *)
(***************************************************************************)
Gateways == {<<>>,
             <<"c", "o", "d">>,
             <<"C", "O", "D">>,
             <<"c", "a", "s", "h", "_", "o", "n", "_", "d", "e", "l", "i", "v", "e", "r", "y">>,
             <<"C", "a", "s", "h", " ", "o", "n", " ", "D", "e", "l", "i", "v", "e", "r", "y">>,
             <<"c", "a", "s", "h", "i", "e", "r">>,
             <<"s", "t", "r", "i", "p", "e">>,
             <<"s", "h", "o", "p", "i", "f", "y", "_", "p", "a", "y", "m", "e", "n", "t", "s">>,
             <<"b", "o", "g", "u", "s">>,
             <<"c", ".", "o", ".", "d">>}

FinancialStatuses == {"", "paid", "partially_paid", "pending", "authorized",
                      "refunded", "Paid"}

\* order.total_price as the number parseFloat makes of it; NoPrice when absent
NoPrice == -1

TotalPrices == {NoPrice, 0, 150, 9950}

isCOD(paymentGateway) ==
    \/ toLowerCase(paymentGateway) = <<"c", "o", "d">>
    \/ toLowerCase(paymentGateway) = <<"c", "a", "s", "h", "_", "o", "n", "_", "d", "e", "l", "i", "v", "e", "r", "y">>
    \/ includes(toLowerCase(paymentGateway), <<"c", "a", "s", "h">>)

isPaid(financialStatus) ==
    financialStatus = "paid" \/ financialStatus = "partially_paid"

PaymentFields_paidFirst(order, st) ==
    LET total == IF order.total_price = NoPrice THEN 0 ELSE order.total_price
        collect == [totalPrice |-> total, codAmount |-> total,
                    paymentMethodId |-> 0, shippingFeesOnSender |-> FALSE,
                    shippingFeesPaid |-> FALSE]
    IN  IF isPaid(order.financial_status)
        THEN [totalPrice |-> 0, codAmount |-> 0, paymentMethodId |-> 1,
              shippingFeesOnSender |-> st.feesOnSender,
              shippingFeesPaid |-> st.feesPaid]
        ELSE collect

PaymentFields(order, st) ==
    LET total == IF order.total_price = NoPrice THEN 0 ELSE order.total_price
    IN  IF isCOD(order.gateway)
        THEN [totalPrice |-> total, codAmount |-> total,
              paymentMethodId |-> 0, shippingFeesOnSender |-> FALSE,
              shippingFeesPaid |-> FALSE]
        ELSE IF isPaid(order.financial_status)
        THEN [totalPrice |-> 0, codAmount |-> 0, paymentMethodId |-> 1,
              shippingFeesOnSender |-> st.feesOnSender,
              shippingFeesPaid |-> st.feesPaid]
        ELSE [totalPrice |-> total, codAmount |-> total,
              paymentMethodId |-> 0, shippingFeesOnSender |-> FALSE,
              shippingFeesPaid |-> FALSE]

\* the variables no mapper touches
Quiet ==
    /\ env = [JOB_SECRET |-> JobSecret]
    /\ res = [p \in Procs |-> NoResponse]
    /\ partner = {}
    /\ shopify = "up"
    /\ profile = NoProfile
    /\ app = "express"
    /\ now = 0
    /\ settings = [s \in Shops |-> Configured("manual", "paid")]
    /\ tokenSeq = 0
    /\ ledger = {}
    /\ nextId = 1
    /\ proc = [p \in Procs |-> Idle]

InitPayment ==
    /\ Quiet
    /\ \E g \in Gateways, f \in FinancialStatuses, t \in TotalPrices,
          fs \in BOOLEAN, fp \in BOOLEAN :
          obs = [act |-> "order_received",
                 order |-> [gateway |-> g, financial_status |-> f,
                            total_price |-> t],
                 st |-> [feesOnSender |-> fs, feesPaid |-> fp],
                 orderData |-> NULL]

PrepareOrderData ==
    /\ obs.act = "order_received"
    /\ obs' = [obs EXCEPT !.act = "order_prepared",
                          !.orderData = PaymentFields(obs.order, obs.st)]
    /\ UNCHANGED <<env, profile, res, partner, shopify, app, now, settings, tokenSeq, ledger, nextId, proc>>

NextPayment == PrepareOrderData

SpecPayment == InitPayment /\ [][NextPayment]_vars

(***************************************************************************)
(* mapStatusValue and its specification: one raw status value is received  *)
(* and mapped                                                              *)
(***************************************************************************)
StatusCodes == {0, 1, 2, 3, 4, 5, 6, 7, 20, 100, 101, 102}

numericStatusMap ==
    [n \in StatusCodes |->
        CASE n = 0 -> "new"
          [] n \in {1, 2, 3, 4, 20} -> "in_transit"
          [] n \in {5, 100} -> "completed"
          [] n \in {6, 101} -> "cancelled"
          [] n \in {7, 102} -> "returned"]

\* the categories in the order of the object's keys, each with its English
\* keywords (the Arabic keywords are matched the same way)
textStatusKeywords ==
    << [status |-> "new", keywords |-> <<<<"n", "e", "w">>>>],
       [status |-> "in_transit", keywords |-> <<<<"t", "r", "a", "n", "s", "i", "t">>, <<"d", "r", "i", "v", "e", "r">>, <<"o", "f", "f", "i", "c", "e">>, <<"p", "r", "o", "c", "e", "s", "s">>, <<"p", "i", "c", "k", "u", "p">>, <<"p", "i", "c", "k", "e", "d">>>>],
       [status |-> "completed", keywords |-> <<<<"d", "e", "l", "i", "v", "e", "r">>, <<"c", "o", "m", "p", "l", "e", "t", "e">>, <<"s", "u", "c", "c", "e", "s", "s">>, <<"d", "o", "n", "e">>>>],
       [status |-> "cancelled", keywords |-> <<<<"c", "a", "n", "c", "e", "l">>, <<"v", "o", "i", "d">>>>],
       [status |-> "returned", keywords |-> <<<<"r", "e", "t", "u", "r", "n">>, <<"r", "t", "o">>>>] >>

DigitChars == <<"0", "1", "2", "3", "4", "5", "6", "7", "8", "9">>

IsDigit(c) == \E k \in 1..10 : DigitChars[k] = c

DigitValue(c) == (CHOOSE k \in 1..10 : DigitChars[k] = c) - 1

RECURSIVE trimStart(_)
trimStart(str) ==
    IF str # <<>> /\ Head(str) = " " THEN trimStart(Tail(str)) ELSE str

RECURSIVE trimEnd(_)
trimEnd(str) ==
    IF str # <<>> /\ str[Len(str)] = " "
    THEN trimEnd(SubSeq(str, 1, Len(str) - 1)) ELSE str

trim(str) == trimEnd(trimStart(str))

\* the value of the digits at the front of str, read left to right
RECURSIVE LeadingDigits(_, _, _)
LeadingDigits(str, acc, seen) ==
    IF str # <<>> /\ IsDigit(Head(str))
    THEN LeadingDigits(Tail(str), acc * 10 + DigitValue(Head(str)), TRUE)
    ELSE IF seen THEN <<acc>> ELSE <<>>

\* parseInt of a string: leading blanks and a sign are skipped, the digits
\* that follow are read, anything after them is ignored; << >> is NaN
parseIntString(str) ==
    LET t == trimStart(str)
        neg == t # <<>> /\ Head(t) = "-"
        body == IF t # <<>> /\ Head(t) \in {"-", "+"} THEN Tail(t) ELSE t
        d == LeadingDigits(body, 0, FALSE)
    IN  IF d = <<>> THEN <<>> ELSE IF neg THEN <<0 - d[1]>> ELSE d

\* parseInt of a number (given in tenths): its integer part
parseIntNumber(tenths) ==
    IF tenths >= 0 THEN <<tenths \div 10>> ELSE <<0 - ((0 - tenths) \div 10)>>

parseInt(value) ==
    IF value.t = "number" THEN parseIntNumber(value.tenths)
    ELSE parseIntString(value.s)

MatchingCategories(valueLower) ==
    {i \in 1..Len(textStatusKeywords) :
        \E k \in 1..Len(textStatusKeywords[i].keywords) :
            includes(valueLower, textStatusKeywords[i].keywords[k])}

mapText(str) ==
    LET m == MatchingCategories(trim(toLowerCase(str)))
    IN  IF m = {} THEN "unknown"
        ELSE textStatusKeywords[CHOOSE i \in m : \A j \in m : i <= j].status

mapStatusValue(value) ==
    IF value.t = "null" THEN "unknown"
    ELSE LET numValue == parseInt(value)
         IN  IF /\ value.t = "number" \/ numValue # <<>>
                /\ numValue # <<>>
                /\ numValue[1] \in DOMAIN numericStatusMap
             THEN numericStatusMap[numValue[1]]
             ELSE IF value.t = "string" THEN mapText(value.s)
             ELSE "unknown"

\* raw values: null, numbers (in tenths, so 15 is 1.5) and strings
NumberTenths == (0 - 10)..80 \cup {195, 200, 210, 990, 1000, 1010, 1020, 1030}

StatusStrings == {<<>>,
                   <<" ", " ">>,
                   <<"5">>,
                   <<"2", "0">>,
                   <<"1", "0", "0">>,
                   <<"1", "0", "2">>,
                   <<"9", "9">>,
                   <<"8">>,
                   <<" ", "7", " ">>,
                   <<"1", ".", "5">>,
                   <<"1", "2">>,
                   <<"0", "5">>,
                   <<"d", "e", "l", "i", "v", "e", "r", "e", "d">>,
                   <<"I", "n", " ", "T", "r", "a", "n", "s", "i", "t">>,
                   <<"C", "a", "n", "c", "e", "l", "l", "e", "d", " ", "b", "y", " ", "u", "s", "e", "r">>,
                   <<"R", "e", "t", "u", "r", "n", "e", "d", " ", "t", "o", " ", "s", "e", "n", "d", "e", "r">>,
                   <<"R", "T", "O">>,
                   <<"N", "e", "w">>,
                   <<"W", "i", "t", "h", " ", "d", "r", "i", "v", "e", "r">>,
                   <<"p", "e", "n", "d", "i", "n", "g", " ", "r", "e", "v", "i", "e", "w">>,
                   <<"o", "n", " ", "h", "o", "l", "d">>,
                   <<"8", " ", "d", "e", "l", "i", "v", "e", "r", "e", "d">>,
                   <<"3", " ", "p", "c", "s">>,
                   <<"D", "o", "n", "e">>,
                   <<"v", "o", "i", "d">>}

RawValue(t, tenths, str) == [t |-> t, tenths |-> tenths, s |-> str]

StatusValues ==
    {RawValue("null", 0, <<>>)}
    \cup {RawValue("number", k, <<>>) : k \in NumberTenths}
    \cup {RawValue("string", 0, str) : str \in StatusStrings}

InitStatus ==
    /\ Quiet
    /\ \E v \in StatusValues :
          obs = [act |-> "status_received", value |-> v, status |-> ""]

MapStatus ==
    /\ obs.act = "status_received"
    /\ obs' = [obs EXCEPT !.act = "status_mapped",
                          !.status = mapStatusValue(obs.value)]
    /\ UNCHANGED <<env, profile, res, partner, shopify, app, now, settings, tokenSeq, ledger, nextId, proc>>

NextStatus == MapStatus

SpecStatus == InitStatus /\ [][NextStatus]_vars

(***************************************************************************)
(* mapProvinceToCity and its specification: one province is received and   *)
(* mapped                                                                  *)
(***************************************************************************)
emirateCodeMap ==
    << [name |-> <<"A", "E", "-", "A", "Z">>, cityId |-> 5],
       [name |-> <<"A", "E", "-", "A", "J">>, cityId |-> 6],
       [name |-> <<"A", "E", "-", "A", "L">>, cityId |-> 7],
       [name |-> <<"A", "E", "-", "D", "U">>, cityId |-> 8],
       [name |-> <<"A", "E", "-", "F", "U">>, cityId |-> 9],
       [name |-> <<"A", "E", "-", "R", "K">>, cityId |-> 10],
       [name |-> <<"A", "E", "-", "S", "H">>, cityId |-> 11],
       [name |-> <<"A", "E", "-", "U", "Q">>, cityId |-> 12],
       [name |-> <<"A", "E", "-", "W", "R">>, cityId |-> 14] >>

\* the English names in the order of the object's keys (the Arabic names
\* are matched the same way)
emirateNameMap ==
    << [name |-> <<"A", "b", "u", " ", "D", "h", "a", "b", "i">>, cityId |-> 5],
       [name |-> <<"A", "b", "u", "d", "h", "a", "b", "i">>, cityId |-> 5],
       [name |-> <<"A", "j", "m", "a", "n">>, cityId |-> 6],
       [name |-> <<"A", "l", " ", "A", "i", "n">>, cityId |-> 7],
       [name |-> <<"A", "l", "a", "i", "n">>, cityId |-> 7],
       [name |-> <<"D", "u", "b", "a", "i">>, cityId |-> 8],
       [name |-> <<"F", "u", "j", "a", "i", "r", "a", "h">>, cityId |-> 9],
       [name |-> <<"F", "u", "j", "a", "i", "r", "a">>, cityId |-> 9],
       [name |-> <<"R", "a", "s", " ", "A", "l", " ", "K", "h", "a", "i", "m", "a", "h">>, cityId |-> 10],
       [name |-> <<"R", "A", "K">>, cityId |-> 10],
       [name |-> <<"R", "a", "s", " ", "a", "l", " ", "K", "h", "a", "i", "m", "a", "h">>, cityId |-> 10],
       [name |-> <<"S", "h", "a", "r", "j", "a", "h">>, cityId |-> 11],
       [name |-> <<"U", "m", "m", " ", "A", "l", " ", "Q", "u", "w", "a", "i", "n">>, cityId |-> 12],
       [name |-> <<"U", "A", "Q">>, cityId |-> 12],
       [name |-> <<"U", "m", "m", " ", "a", "l", " ", "Q", "u", "w", "a", "i", "n">>, cityId |-> 12],
       [name |-> <<"W", "e", "s", "t", "e", "r", "n", " ", "R", "e", "g", "i", "o", "n">>, cityId |-> 14] >>

DEFAULT_CITY_ID == 13

minCityId == 5

maxCityId == 14

Lookup(table, key) ==
    {i \in 1..Len(table) : table[i].name = key}

First(S) == CHOOSE i \in S : \A j \in S : i <= j

mapProvinceToCity(province, defaultCityId) ==
    LET provinceLower == trim(toLowerCase(province))
        same == {i \in 1..Len(emirateNameMap) :
                    toLowerCase(emirateNameMap[i].name) = provinceLower}
        partial == {i \in 1..Len(emirateNameMap) :
                    \/ includes(provinceLower, toLowerCase(emirateNameMap[i].name))
                    \/ includes(toLowerCase(emirateNameMap[i].name), provinceLower)}
        provinceNum == parseIntString(province)
    IN  IF province = <<>> THEN defaultCityId
        ELSE IF Lookup(emirateCodeMap, province) # {}
        THEN emirateCodeMap[First(Lookup(emirateCodeMap, province))].cityId
        ELSE IF Lookup(emirateNameMap, province) # {}
        THEN emirateNameMap[First(Lookup(emirateNameMap, province))].cityId
        ELSE IF same # {} THEN emirateNameMap[First(same)].cityId
        ELSE IF partial # {} THEN emirateNameMap[First(partial)].cityId
        ELSE IF /\ provinceNum # <<>>
                /\ provinceNum[1] >= minCityId
                /\ provinceNum[1] <= maxCityId
        THEN provinceNum[1]
        ELSE defaultCityId

Provinces == {<<>>,
               <<" ", " ">>,
               <<"A", "E", "-", "D", "U">>,
               <<"A", "E", "-", "A", "Z">>,
               <<"A", "E", "-", "W", "R">>,
               <<"a", "e", "-", "d", "u">>,
               <<"D", "u", "b", "a", "i">>,
               <<"d", "u", "b", "a", "i">>,
               <<"D", "U", "B", "A", "I", " ">>,
               <<" ", "A", "j", "m", "a", "n">>,
               <<"D", "u", "b", "a", "i", " ", "M", "a", "r", "i", "n", "a">>,
               <<"S", "h", "a", "r", "j", "a", "h">>,
               <<"R", "A", "K">>,
               <<"r", "a", "k">>,
               <<"R", "a", "s", " ", "a", "l", " ", "K", "h", "a", "i", "m", "a", "h">>,
               <<"u", "m", "m", " ", "a", "l", " ", "q", "u", "w", "a", "i", "n">>,
               <<"A", "b", "u", " ", "D", "h", "a", "b", "i">>,
               <<"A", "b", "u", "d", "h", "a", "b", "i">>,
               <<"A", "l">>,
               <<"F", "u", "j">>,
               <<"7">>,
               <<"1", "4">>,
               <<"1", "5">>,
               <<"4">>,
               <<"0">>,
               <<"1", "2", " ">>,
               <<"C", "a", "i", "r", "o">>,
               <<"L", "o", "n", "d", "o", "n">>,
               <<"W", "e", "s", "t", "e", "r", "n">>,
               <<"x">>}

FallbackCityIds == {DEFAULT_CITY_ID, 8, 20}

InitCity ==
    /\ Quiet
    /\ \E province \in Provinces, d \in FallbackCityIds :
          obs = [act |-> "province_received", province |-> province,
                 defaultCityId |-> d, cityId |-> 0]

MapProvince ==
    /\ obs.act = "province_received"
    /\ obs' = [obs EXCEPT !.act = "province_mapped",
                          !.cityId = mapProvinceToCity(obs.province,
                                                       obs.defaultCityId)]
    /\ UNCHANGED <<env, profile, res, partner, shopify, app, now, settings, tokenSeq, ledger, nextId, proc>>

NextCity == MapProvince

SpecCity == InitCity /\ [][NextCity]_vars

(***************************************************************************)
(* extractShipmentId on the response tree and its specification: one       *)
(* createShipment response is received and searched. An object is the      *)
(* sequence of its entries in key order; a leaf is known by the length of  *)
(* its string form and by the place it was put in                          *)
(***************************************************************************)
Leaf(len, place) == [t |-> "leaf", len |-> len, place |-> place]

Object(entries) == [t |-> "object", entries |-> entries]

Entry(name, val) == [name |-> name, val |-> val]

NoLeaf == Leaf(0, "none")

rootIdFields == <<"shipmentId", "ShipmentId", "shipmentNo", "ShipmentNo",
                  "trackingNumber", "TrackingNumber", "id", "Id">>

deepIdFields == <<"ShipmentNo", "shipmentNo", "shipmentId", "ShipmentId",
                  "trackingNumber", "TrackingNumber">>

searchDepth == 5

minIdLength == 3

maxIdLength == 30

isValidShipmentId_strict(value) ==
    /\ value.t = "leaf" /\ value.len > 0
    /\ value.len > minIdLength + 1 /\ value.len < maxIdLength - 1

isValidShipmentId(value) ==
    /\ value.t = "leaf" /\ value.len > 0
    /\ value.len > minIdLength /\ value.len < maxIdLength

\* obj[field]; NoLeaf when the key is absent
Get(obj, field) ==
    LET hit == {i \in 1..Len(obj.entries) : obj.entries[i].name = field}
    IN  IF hit = {} THEN NoLeaf ELSE obj.entries[CHOOSE i \in hit : TRUE].val

\* the first field of the list whose value is a valid ID
FirstValid(obj, fields) ==
    LET hit == {k \in 1..Len(fields) : isValidShipmentId(Get(obj, fields[k]))}
    IN  IF hit = {} THEN NoLeaf
        ELSE Get(obj, fields[CHOOSE k \in hit : \A j \in hit : k <= j])

RECURSIVE deepSearchShipmentId(_, _)
RECURSIVE deepSearchEntries(_, _, _)
deepSearchEntries(entries, i, depth) ==
    IF i > Len(entries) THEN NoLeaf
    ELSE LET found == IF entries[i].val.t = "object"
                      THEN deepSearchShipmentId(entries[i].val, depth + 1)
                      ELSE NoLeaf
         IN  IF found # NoLeaf THEN found
             ELSE deepSearchEntries(entries, i + 1, depth)

deepSearchShipmentId(obj, depth) ==
    IF depth > searchDepth \/ obj.t # "object" THEN NoLeaf
    ELSE IF FirstValid(obj, deepIdFields) # NoLeaf
         THEN FirstValid(obj, deepIdFields)
         ELSE deepSearchEntries(obj.entries, 1, depth)

extractShipmentIdTree(response) ==
    IF FirstValid(response, rootIdFields) # NoLeaf
    THEN FirstValid(response, rootIdFields)
    ELSE IF Get(response, "SH").t = "object"
            /\ FirstValid(Get(response, "SH"), rootIdFields) # NoLeaf
    THEN FirstValid(Get(response, "SH"), rootIdFields)
    ELSE deepSearchShipmentId(response, 0)

\* a ShipmentNo of the given length, d objects below the root
RECURSIVE Nested(_, _)
Nested(d, len) ==
    IF d = 0 THEN <<Entry("ShipmentNo", Leaf(len, "deep"))>>
    ELSE <<Entry("data", Object(Nested(d - 1, len)))>>

IdLengths == {3, 4, 5, 29, 30}

RootParts ==
    {<<>>} \cup {<<Entry(f, Leaf(len, "root"))>> :
                    f \in {"shipmentId", "Id"}, len \in IdLengths}

SHParts ==
    {<<>>} \cup {<<Entry("SH", Object(<<Entry("id", Leaf(len, "SH"))>>))>> :
                    len \in IdLengths}

DeepParts ==
    {<<>>} \cup {Nested(d, len) : d \in 1..(searchDepth + 1), len \in {4, 10}}

Responses ==
    {Object(r \o sh \o dp) : r \in RootParts, sh \in SHParts, dp \in DeepParts}

InitExtract ==
    /\ Quiet
    /\ \E response \in Responses :
          obs = [act |-> "response_received", response |-> response,
                 found |-> NoLeaf]

ExtractId ==
    /\ obs.act = "response_received"
    /\ obs' = [obs EXCEPT !.act = "id_extracted",
                          !.found = extractShipmentIdTree(obs.response)]
    /\ UNCHANGED <<env, profile, res, partner, shopify, app, now, settings, tokenSeq, ledger, nextId, proc>>

NextExtract == ExtractId

SpecExtract == InitExtract /\ [][NextExtract]_vars

(***************************************************************************)
(* Order webhooks: the routes orders/create and orders/paid around the     *)
(* order handler, one request at a time                                    *)
(***************************************************************************)
httpOk == 200

\* the route has verified and parsed the request. The express route answers
\* 200 at once and calls the handler afterwards; the React-Router route
\* awaits the handler first and has sent nothing yet
WebhookReceived(p, topic, shop, order) ==
    /\ CanStart(p)
    /\ res[p].phase = "none"
    /\ topic \in Triggers
    /\ LET sent == IF app = "express" THEN httpOk ELSE 0 IN
       /\ res' = [res EXCEPT ![p] = [phase |-> "received", entry |-> topic,
                                     shop |-> shop, order |-> order,
                                     status |-> sent]]
       /\ obs' = [NoObs EXCEPT !.act = "webhook_received", !.entry = topic,
                               !.shop = shop, !.order = order, !.code = sent]
    /\ UNCHANGED <<env, profile, partner, shopify, app, now, settings, tokenSeq, ledger, nextId, proc>>

\* handleOrderCreated / handleOrderPaid decide not to send
WebhookSkipped(p) ==
    /\ res[p].phase = "received"
    /\ obs.act = "webhook_received"
    /\ SendSkipped(p, res[p].entry, res[p].shop, res[p].order)

\* handleOrderCreated / handleOrderPaid call sendOrderToDelifast
WebhookSend(p) ==
    /\ res[p].phase = "received"
    /\ obs.act = "webhook_received"
    /\ SendStart(p, res[p].entry, res[p].shop, res[p].order)

\* the handler has returned or thrown; a throw is caught and logged by the
\* route. The React-Router route answers 200 "OK" now, on either path; the
\* express route has answered already
WebhookDone(p) ==
    /\ res[p].phase = "received"
    /\ proc[p].pc = "idle"
    /\ obs.act \in {"send_skipped", "send_save", "send_catch"}
    /\ obs' = [NoObs EXCEPT !.act = "webhook_done", !.entry = res[p].entry,
                            !.shop = res[p].shop, !.order = res[p].order,
                            !.ok = obs.ok, !.err = obs.err,
                            !.code = IF app = "express" THEN res[p].status
                                     ELSE httpOk]
    /\ res' = [res EXCEPT ![p] = NoResponse]
    /\ UNCHANGED <<env, profile, partner, shopify, app, now, settings, tokenSeq, ledger, nextId, proc>>

\* time passes between two requests
WebhookTick ==
    /\ \A p \in Procs : res[p].phase = "none"
    /\ Tick

NextWebhook ==
    \/ WebhookTick
    \/ \E p \in Handlers, topic \in Triggers, shop \in Shops, order \in Orders :
          WebhookReceived(p, topic, shop, order)
    \/ \E p \in Handlers : WebhookSkipped(p)
    \/ \E p \in Handlers : WebhookSend(p)
    \/ \E p \in Handlers : SendSave(p)
    \/ \E p \in Handlers : SendCatch(p)
    \/ \E p \in Handlers : WebhookDone(p)

SpecWebhook == Init /\ [][NextWebhook]_vars

(***************************************************************************)
(* Specification of concurrent handlers: two webhooks or requests about    *)
(* the same order in flight at once, at one instant                        *)
(***************************************************************************)
NextConc ==
    \/ \E p \in Procs, entry \in AllEntries, shop \in Shops, order \in Orders :
          SendSkipped(p, entry, shop, order)
    \/ \E p \in Procs, entry \in AllEntries, shop \in Shops, order \in Orders :
          SendStart(p, entry, shop, order)
    \/ \E p \in Procs : SendSave(p)
    \/ \E p \in Procs : SendCatch(p)

SpecConc == Init /\ [][NextConc]_vars

(***************************************************************************)
(* Specification of overlapping operations: webhook and manual Sends and   *)
(* a cron job of the same store, each in its own slot of the event loop    *)
(***************************************************************************)
NextOverlap ==
    \/ \E p \in Handlers, entry \in AllEntries, shop \in Shops, order \in Orders :
          SendSkipped(p, entry, shop, order)
    \/ \E p \in Handlers, entry \in AllEntries, shop \in Shops, order \in Orders :
          SendStart(p, entry, shop, order)
    \/ \E p \in Handlers : SendSave(p)
    \/ \E p \in Handlers : SendCatch(p)
    \/ \E p \in Procs \ Handlers : JobStart(p, "job_sync")
    \/ \E p \in Procs \ Handlers : SyncBegin(p)
    \/ \E p \in Procs \ Handlers : SyncItem(p)
    \/ \E p \in Procs \ Handlers : JobEnd(p)

SpecOverlap == InitJobs /\ [][NextOverlap]_vars

(***************************************************************************)
(* Specification of repeated jobs: a job invoked twice in succession at    *)
(* one instant, the partner giving the same answers and the database       *)
(* answering every query                                                   *)
(***************************************************************************)
AllJobs == Jobs \cup {"job_check"}

\* Two invocations one after the other: the second starts when the first
\* has returned, so its loop over the stores follows the loop of the first
JobTwice(p, job) ==
    /\ CanStart(p)
    /\ proc' = [proc EXCEPT ![p] =
           [Idle EXCEPT !.pc = job,
                        !.stores = StoresWithCredentials \o StoresWithCredentials]]
    /\ obs' = [NoObs EXCEPT !.act = "job_start", !.entry = job]
    /\ UNCHANGED <<env, profile, res, partner, shopify, app, now, settings, tokenSeq, ledger, nextId>>

\* the second of the two invocations is at work
SecondRun(p) ==
    /\ proc[p].pc \in AllJobs \cup {"job_check_errors"}
    /\ Len(proc[p].stores) < Len(StoresWithCredentials)

CheckBeginDbUp(p) == CheckBegin(p) /\ obs'.ok
CheckItemDbUp(p) == CheckItem(p) /\ obs'.ok
CheckErrorItemDbUp(p) == CheckErrorItem(p) /\ obs'.ok

\* between two pairs of invocations the partner may change its answers
PartnerChanges ==
    /\ \A p \in Procs : proc[p].pc = "idle"
    /\ partner # {}
    /\ partner' = {}
    /\ obs' = NoObs
    /\ UNCHANGED <<env, profile, res, shopify, app, now, settings, tokenSeq, ledger, nextId, proc>>

InitTwice ==
    /\ env = [JOB_SECRET |-> JobSecret]
    /\ res = [p \in Procs |-> NoResponse]
    /\ partner = {}
    /\ shopify = "up"
    /\ profile = NoProfile
    /\ app \in Apps
    /\ now = SweepNow
    /\ settings = [s \in Shops |->
                     setToken(Configured("manual", "paid"), MaxLogins - 1, SweepNow)]
    /\ tokenSeq = MaxLogins - 1
    /\ \E r1 \in SweepRows(1, "s1", "o1"), r2 \in SweepRows(2, "s1", "o2") :
          ledger = {r1, r2}
    /\ nextId = 3
    /\ proc = [p \in Procs |-> Idle]
    /\ obs = NoObs

NextTwice ==
    \/ \E p \in Handlers, job \in AllJobs : JobTwice(p, job)
    \/ \E p \in Handlers : SyncBegin(p)
    \/ \E p \in Handlers : SyncItemSameAnswers(p)
    \/ \E p \in Handlers : TempBegin(p)
    \/ \E p \in Handlers : TempItem(p)
    \/ \E p \in Handlers : CheckBeginDbUp(p)
    \/ \E p \in Handlers : CheckItemDbUp(p)
    \/ \E p \in Handlers : CheckErrorItemDbUp(p)
    \/ \E p \in Handlers : JobEnd(p)
    \/ PartnerChanges

SpecTwice == InitTwice /\ [][NextTwice]_vars

(***************************************************************************)
(* Specification of a failed Send: the row a failed Send left for order o1 *)
(* next to another row of the store, the three jobs, a manual correction   *)
(* and a later Send of the order                                           *)
(***************************************************************************)
FailedSendRows(id, shop, order) ==
    {r \in SweepRows(id, shop, order) : r.status = "error"}

PendingRows(id, shop, order) ==
    {r \in SweepRows(id, shop, order) : r.isTemporaryId}

InitFailedSend ==
    /\ env = [JOB_SECRET |-> JobSecret]
    /\ res = [p \in Procs |-> NoResponse]
    /\ partner = {}
    /\ shopify = "up"
    /\ profile = NoProfile
    /\ app \in Apps
    /\ now = SweepNow
    /\ settings = [s \in Shops |->
                     setToken(Configured("auto", "paid"), MaxLogins, SweepNow)]
    /\ tokenSeq = MaxLogins
    /\ \E r1 \in FailedSendRows(1, "s1", "o1"), r2 \in PendingRows(2, "s1", "o2") :
          ledger = {r1, r2}
    /\ nextId = 3
    /\ proc = [p \in Procs |-> Idle]
    /\ obs = NoObs

NextFailedSend ==
    \/ \E p \in Handlers, job \in AllJobs : JobStart(p, job)
    \/ \E p \in Handlers : SyncBegin(p)
    \/ \E p \in Handlers : SyncItem(p)
    \/ \E p \in Handlers : TempBegin(p)
    \/ \E p \in Handlers : TempItem(p)
    \/ \E p \in Handlers : CheckBeginDbUp(p)
    \/ \E p \in Handlers : CheckItemDbUp(p)
    \/ \E p \in Handlers : CheckErrorItemDbUp(p)
    \/ \E p \in Handlers : JobEnd(p)
    \/ \E p \in Handlers, id \in ManualIds : UpdateShipmentId(p, "s1", "o1", id)
    \/ \E p \in Handlers, entry \in {"paid", "manual"} : SendStart(p, entry, "s1", "o1")
    \/ \E p \in Handlers : SendSave(p)
    \/ \E p \in Handlers : SendCatch(p)

SpecFailedSend == InitFailedSend /\ [][NextFailedSend]_vars

(***************************************************************************)
(* Specification of the Shopify updates: the operations of the jobs        *)
(* specification and Send, while Shopify goes down and comes back          *)
(***************************************************************************)
ShopifyChanges ==
    /\ shopify' = IF shopify = "up" THEN "down" ELSE "up"
    /\ obs' = NoObs
    /\ UNCHANGED <<env, profile, res, partner, app, now, settings, tokenSeq, ledger,
                   nextId, proc>>

\* one tick after the Sends that made the rows, so that the first lookup
\* of a temporary row is due; a store that sends on orders/create
InitShopify ==
    /\ env = [JOB_SECRET |-> JobSecret]
    /\ res = [p \in Procs |-> NoResponse]
    /\ partner = {}
    /\ shopify \in {"up", "down"}
    /\ profile = NoProfile
    /\ app \in Apps
    /\ now = sendLookupDelay
    /\ settings = [s \in Shops |-> LoggedIn("auto", "created")]
    /\ tokenSeq = MaxLogins - 1
    /\ \/ ledger = {}
       \/ \E row \in UNION {SentRows(s, o) : s \in Shops, o \in Orders} :
             ledger = {row}
    /\ nextId = 2
    /\ proc = [p \in Procs |-> Idle]
    /\ obs = NoObs

NextShopify ==
    \/ ShopifyChanges
    \/ \E p \in Handlers, entry \in Triggers, shop \in Shops, order \in Orders :
          SendStart(p, entry, shop, order)
    \/ \E p \in Handlers : SendSave(p)
    \/ \E p \in Handlers : SendCatch(p)
    \/ \E p \in Handlers, shop \in Shops, order \in Orders :
          RefreshOrderStatus(p, shop, order)
    \/ \E p \in Handlers, shop \in Shops, order \in Orders, id \in ManualIds :
          UpdateShipmentId(p, shop, order, id)
    \/ \E p \in Handlers, job \in Jobs : JobStart(p, job)
    \/ \E p \in Handlers : SyncBegin(p)
    \/ \E p \in Handlers : SyncItem(p)
    \/ \E p \in Handlers : TempBegin(p)
    \/ \E p \in Handlers : TempItem(p)
    \/ \E p \in Handlers : JobEnd(p)

SpecShopify == InitShopify /\ [][NextShopify]_vars

(***************************************************************************)
(* Properties                                                              *)
(***************************************************************************)
Row(shop, order) == findUnique(ledger, shop, order)

\* C1: when the row of (store, order) already has a shipment ID, a Send
\* through any entry point issues no create-shipment call and changes
\* neither the row nor anything else: it does not even start.
C1_SendIsIdempotent ==
    [][ (/\ obs'.act \in {"send_start", "send_skipped"}
         /\ AlreadySent(ledger, obs'.shop, obs'.order))
        => (obs'.calls = 0 /\ ledger' = ledger /\ proc' = proc) ]_vars

\* C2: no iteration of a Status Sync pass calls the partner for a shipment
\* whose status, as selected and as stored, is completed, cancelled or returned.
C2_SyncSkipsTerminal ==
    [][ \A p \in Procs :
          (/\ proc[p].pc = "job_sync"
           /\ proc[p].queue # <<>>
           /\ proc'[p].queue = Tail(proc[p].queue)
           /\ obs'.calls > 0)
          => LET shipment == Head(proc[p].queue) IN
             /\ shipment.status \notin Terminal
             /\ Row(shipment.shop, shipment.shopifyOrderId).status \notin Terminal
      ]_vars

C2_TerminalRowLeftOut ==
    /\ obs.act = "sync_begin"
    /\ \E p \in Procs : proc[p].pc = "job_sync" /\ proc[p].queue = <<>>
    /\ \E row \in ledger :
          /\ row.status \in Terminal
          /\ ~row.isTemporaryId
          /\ ~isTemporaryId(row.shipmentId)

\* C3: a temporary row whose lookups have failed maxLookupAttempts times has
\* no next lookup scheduled and carries the manual-intervention notice, and
\* no Temp-ID Resolution pass selects it.
C3_ExhaustedRowIsParked ==
    /\ \A row \in ledger :
          (row.isTemporaryId /\ row.lookupAttempts >= maxLookupAttempts)
          => (row.nextLookupAt = NoTime /\ row.statusDetails = ManualNotice)
    /\ \A p \in Procs :
          (proc[p].pc = "job_temp" /\ proc[p].queue # <<>>)
          => Head(proc[p].queue).lookupAttempts < maxLookupAttempts

\* C4: whatever the login answers, a token that ensureValidToken returns is
\* the cached one and is not expired; it comes from a login made in the call
\* or was cached with an expiry later than now + tokenRefreshMinutes; and a
\* login is made exactly when the cached token is absent, expired or inside
\* the refresh window.
C4_TokenIsValid ==
    \A shop \in Shops, lo \in LoginOutcomes :
        LET st == settings[shop]
            ev == ensureValidToken(st, tokenSeq, now, lo)
            loggedIn == ev.trace # <<>>
            mustLogin == \/ st.apiToken = NoToken
                         \/ st.tokenExpiry <= now
                         \/ st.tokenExpiry <= now + tokenRefreshMinutes
        IN  /\ loggedIn <=> mustLogin
            /\ ev.ok => /\ ev.token # NoToken
                        /\ ev.st.apiToken = ev.token
                        /\ ev.st.tokenExpiry > now
                        /\ IF loggedIn
                           THEN ev.token = tokenSeq + 1 /\ ev.trace[1].tok = ev.token
                           ELSE /\ ev.token = st.apiToken
                                /\ st.tokenExpiry > now + tokenRefreshMinutes

C4_TokenRefreshed ==
    /\ obs.act = "getCities"
    /\ obs.ok
    /\ obs.trace[1].ev = "login"
    /\ tokenSeq > 1
    /\ settings[obs.shop].apiToken = tokenSeq
    /\ settings[obs.shop].tokenExpiry = now + tokenExpiryHours

FirstHttp(tr) ==
    CHOOSE i \in 1..Len(tr) :
        tr[i].ev = "http" /\ \A j \in 1..(i - 1) : tr[j].ev # "http"

Got401(tr) ==
    /\ HttpCalls(tr) > 0
    /\ tr[FirstHttp(tr)].code = 401

C6_Second401IsAnError ==
    (/\ obs.act = "getCities"
     /\ Got401(obs.trace)
     /\ obs.calls = 2
     /\ obs.trace[Len(obs.trace)].code = 401)
    => (/\ ~obs.ok
        /\ obs.err # ""
        /\ obs.trace[Len(obs.trace)].ev = "http"
        /\ Len(obs.trace) = FirstHttp(obs.trace) + 3)

\* C7: every row is flagged temporary exactly when its shipment ID has one
\* of the prefixes DELIFAST-, PENDING-, TEMP-.
C7_FlagMatchesPrefix ==
    \A row \in ledger : row.isTemporaryId <=> isTemporaryId(row.shipmentId)

\* C8: when createShipment succeeded without a shipment ID, the write of Send
\* leaves the row with a generated temporary ID, flagged temporary, status
\* new, next lookup at now + 15 minutes, and Send reports success.
C8_TemporaryIdOnMissingId ==
    [][ \A p \in Procs :
          (/\ proc[p].pc = "send_save"
           /\ proc[p].cr.shipmentId = NULL
           /\ obs'.act = "send_save"
           /\ proc'[p].pc = "idle")
          => LET row == findUnique(ledger', proc[p].shop, proc[p].order) IN
             /\ row # NoRow
             /\ row.shipmentId = generateTemporaryId(proc[p].order, now)
             /\ isTemporaryId(row.shipmentId)
             /\ row.isTemporaryId
             /\ row.status = "new"
             /\ row.nextLookupAt = now + sendLookupDelay
             /\ obs'.ok
      ]_vars

C8_TemporaryRowWritten ==
    /\ obs.act = "send_save"
    /\ obs.ok
    /\ Row(obs.shop, obs.order) # NoRow
    /\ Row(obs.shop, obs.order).isTemporaryId
    /\ Row(obs.shop, obs.order).shipmentId = generateTemporaryId(obs.order, now)
    /\ Row(obs.shop, obs.order).nextLookupAt = now + sendLookupDelay

C10_OneRowPerOrder ==
    \A r1 \in ledger, r2 \in ledger :
        (r1.shop = r2.shop /\ r1.shopifyOrderId = r2.shopifyOrderId) => r1 = r2

C10_SecondSendPending ==
    /\ obs.act = "send_save"
    /\ Row(obs.shop, obs.order) # NoRow
    /\ \E p \in Procs :
          /\ proc[p].pc = "send_save"
          /\ proc[p].shop = obs.shop
          /\ proc[p].order = obs.order

\* C11: no step lowers the lookupAttempts of a row, and no row has more
\* than maxLookupAttempts.
C11_AttemptsNeverDecrease ==
    [][ \A r1 \in ledger : \A r2 \in ledger' :
          r2.id = r1.id =>
             /\ r2.lookupAttempts >= r1.lookupAttempts
             /\ r2.lookupAttempts <= maxLookupAttempts ]_vars

\* C12: getShipmentStatus answers an ID of the temporary pattern with the
\* synthetic result and no partner call; no Refresh, manual correction or
\* sync iteration calls the partner for such an ID; Refresh of a row that is
\* flagged temporary or has such an ID succeeds without a call and without
\* a write.
C12_NoStatusCallForTemporaryId ==
    [][ /\ \A shop \in DOMAIN settings, id \in PartnerIds \cup ManualIds
                \cup {generateTemporaryId(o, now) : o \in Orders} :
              isTemporaryId(id) =>
                 \A sr \in getShipmentStatus(settings[shop], tokenSeq, now, id) :
                    /\ sr.status = "new" /\ sr.isTemporary /\ sr.calls = 0
                    /\ sr.st = settings[shop] /\ sr.seq = tokenSeq
        /\ (obs'.act \in {"refresh", "manual_id"} /\ obs'.calls > 0)
              => ~isTemporaryId(findUnique(ledger', obs'.shop, obs'.order).shipmentId)
        /\ \A p \in Procs :
              (/\ proc[p].pc = "job_sync" /\ proc[p].queue # <<>>
               /\ proc'[p].queue = Tail(proc[p].queue)
               /\ obs'.calls > 0)
              => ~isTemporaryId(Head(proc[p].queue).shipmentId)
        /\ \A row \in ledger :
              (/\ obs'.act = "refresh"
               /\ obs'.shop = row.shop /\ obs'.order = row.shopifyOrderId
               /\ row.isTemporaryId \/ isTemporaryId(row.shipmentId))
              => (obs'.calls = 0 /\ obs'.ok /\ ledger' = ledger)
      ]_vars

C12_TemporaryRowRefreshed ==
    /\ obs.act = "refresh"
    /\ obs.ok
    /\ obs.calls = 0
    /\ Row(obs.shop, obs.order) # NoRow
    /\ isTemporaryId(Row(obs.shop, obs.order).shipmentId)
    /\ ~Row(obs.shop, obs.order).isTemporaryId

\* C13: in each of the three jobs a failure while one shipment is processed
\* does not end the sweep: the shipments selected after it and the stores
\* after this one are still to be processed.
C13_FailureDoesNotEndTheSweep ==
    [][ \A p \in Procs :
          (/\ proc[p].pc \in Jobs \cup {"job_check", "job_check_errors"}
           /\ proc[p].queue # <<>>
           /\ proc'[p] # proc[p]
           /\ ~obs'.ok)
          => /\ proc'[p].queue = Tail(proc[p].queue)
             /\ proc'[p].stores = proc[p].stores
             /\ proc'[p].pc = proc[p].pc ]_vars

\* C14: a POST to a job trigger endpoint whose Authorization header is not
\* the bearer value of the shared secret is answered 401 and starts no job,
\* whatever the configuration.
C14_TriggerNeedsTheSecret ==
    [][ \A p \in Procs, job \in Jobs \cup {"job_check"}, h \in AuthHeaders :
          (JobTrigger(p, job, h) /\ h # Bearer(JobSecret))
          => (obs'.code = 401 /\ proc' = proc) ]_vars

\* C15: a Refresh, a manual ID correction or an iteration of the status
\* sync for a store whose username or password is unset issues no partner
\* call, cached token or not.
C15_NoCallWithoutCredentials ==
    [][ (/\ obs'.act \in {"refresh", "manual_id", "sync_item"}
         /\ ~HasCredentials(settings[obs'.shop]))
        => obs'.calls = 0 ]_vars

C17_PaymentBranches ==
    obs.act = "order_prepared" =>
       LET o == obs.order
           d == obs.orderData
           total == IF o.total_price = NoPrice THEN 0 ELSE o.total_price
           asCOD == /\ d.codAmount = total
                    /\ d.paymentMethodId = 0
                    /\ ~d.shippingFeesOnSender
                    /\ ~d.shippingFeesPaid
           cash == \/ toLowerCase(o.gateway) = <<"c", "o", "d">>
                   \/ includes(toLowerCase(o.gateway), <<"c", "a", "s", "h">>)
       IN  /\ cash => asCOD
           /\ (~cash /\ o.financial_status \in {"paid", "partially_paid"})
                 => /\ d.codAmount = 0
                    /\ d.totalPrice = 0
                    /\ d.paymentMethodId = 1
                    /\ d.shippingFeesOnSender = obs.st.feesOnSender
                    /\ d.shippingFeesPaid = obs.st.feesPaid
           /\ (~cash /\ o.financial_status \notin {"paid", "partially_paid"})
                 => asCOD

C17_PaidCashOrderPrepared ==
    /\ obs.act = "order_prepared"
    /\ obs.order.gateway = <<"C", "O", "D">>
    /\ obs.order.financial_status = "paid"
    /\ obs.order.total_price = 150
    /\ obs.st.feesOnSender
    /\ obs.orderData.codAmount = 150

\* the documented table of status codes
DocumentedCategory(n) ==
    CASE n = 0 -> "new"
      [] n \in {1, 2, 3, 4, 20} -> "in_transit"
      [] n \in {5, 100} -> "completed"
      [] n \in {6, 101} -> "cancelled"
      [] n \in {7, 102} -> "returned"
      [] OTHER -> "unknown"

\* a string that is a number written in digits, blanks around it allowed
IsNumeral(str) ==
    /\ trim(str) # <<>>
    /\ \A i \in 1..Len(trim(str)) : IsDigit(trim(str)[i])

\* C18: a number, or a string that is a numeral, maps to the documented
\* category when its value is in the code table and to unknown when it is
\* not; text without a digit at its front and without a category keyword
\* maps to unknown.
C18_StatusTable ==
    obs.act = "status_mapped" =>
       LET v == obs.value IN
       /\ v.t = "number" =>
             obs.status = IF v.tenths % 10 = 0
                          THEN DocumentedCategory(v.tenths \div 10)
                          ELSE "unknown"
       /\ (v.t = "string" /\ IsNumeral(v.s)) =>
             obs.status = DocumentedCategory(parseIntString(v.s)[1])
       /\ (/\ v.t = "string"
           /\ parseIntString(v.s) = <<>>
           /\ MatchingCategories(trim(toLowerCase(v.s))) = {})
             => obs.status = "unknown"

\* a province names an emirate when, case and surrounding blanks aside, it
\* contains a name of the table or is a non-empty part of one
NamesAnEmirate(province) ==
    LET pl == trim(toLowerCase(province)) IN
    /\ pl # <<>>
    /\ \E i \in 1..Len(emirateNameMap) :
          \/ includes(pl, toLowerCase(emirateNameMap[i].name))
          \/ includes(toLowerCase(emirateNameMap[i].name), pl)

\* C19: a province that is an emirate code or, failing that, exactly a name
\* of the table maps to that entry's ID; a province that is no code, names
\* no emirate and is not an integer from 5 to 14 (an empty or blank
\* province included) maps to the fallback ID.
C19_ProvinceResolution ==
    obs.act = "province_mapped" =>
       LET pr == obs.province
           code == Lookup(emirateCodeMap, pr)
           name == Lookup(emirateNameMap, pr)
           num == parseIntString(pr)
       IN  /\ code # {} => obs.cityId = emirateCodeMap[First(code)].cityId
           /\ (code = {} /\ name # {})
                 => obs.cityId = emirateNameMap[First(name)].cityId
           /\ (/\ code = {}
               /\ ~NamesAnEmirate(pr)
               /\ ~(num # <<>> /\ num[1] >= 5 /\ num[1] <= 14))
                 => obs.cityId = obs.defaultCityId

\* C20: a generated ID is a temporary ID, and a Send that generates an ID
\* for an order whose row already holds a generated ID writes a different
\* one, also when both were generated at the same clock reading.
C20_GeneratedIdsDiffer ==
    [][ \A p \in Procs :
          (/\ proc[p].pc = "send_save"
           /\ proc[p].cr.shipmentId = NULL
           /\ obs'.act = "send_save"
           /\ proc'[p].pc = "idle")
          => LET old == findUnique(ledger, proc[p].shop, proc[p].order)
                 new == findUnique(ledger', proc[p].shop, proc[p].order)
             IN  /\ isTemporaryId(generateTemporaryId(proc[p].order, now))
                 /\ new.shipmentId = generateTemporaryId(proc[p].order, now)
                 /\ (old # NoRow /\ old.isTemporaryId)
                       => new.shipmentId # old.shipmentId
      ]_vars

\* the leaves of a response by place, and the depth of its nested ShipmentNo
LeafAt(response, place) ==
    CASE place = "root" ->
            IF Len(response.entries) > 0 /\ response.entries[1].val.t = "leaf"
            THEN response.entries[1].val ELSE NoLeaf
      [] place = "SH" ->
            IF Get(response, "SH").t = "object"
            THEN Get(response, "SH").entries[1].val ELSE NoLeaf

RECURSIVE DepthOfNested(_)
DepthOfNested(obj) ==
    IF Get(obj, "data").t = "object" THEN 1 + DepthOfNested(Get(obj, "data"))
    ELSE 0

\* the extracted ID is the first candidate, in the order root, SH, nested
\* objects down to depth 5, whose length is above lo and below hi; no ID is
\* returned when no candidate qualifies
ExtractionRule(lo, hi) ==
    obs.act = "id_extracted" =>
       LET r == obs.response
           ok(v) == v.len > lo /\ v.len < hi
           root == LeafAt(r, "root")
           sh == LeafAt(r, "SH")
           depth == DepthOfNested(r)
       IN  /\ obs.found # NoLeaf => ok(obs.found)
           /\ ok(root) => obs.found = root
           /\ (~ok(root) /\ ok(sh)) => obs.found = sh
           /\ (~ok(root) /\ ~ok(sh) /\ depth >= 1 /\ depth <= 5)
                 => obs.found.place = "deep"
           /\ (~ok(root) /\ ~ok(sh) /\ (depth = 0 \/ depth > 5))
                 => obs.found = NoLeaf

\* C21 as claimed: the extracted ID is the first candidate, in the order
\* root, SH, nested objects down to depth 5, whose length is strictly
\* between 4 and 29 (5 to 28 characters).
C21_LengthBetween4And29 == ExtractionRule(4, 29)

\* C21 amended: the same order of search, and a candidate qualifies when its
\* length is at least 4 and at most 29 characters.
C21_LengthFrom4To29 == ExtractionRule(3, 30)

C21_ShortestIdFoundDeep ==
    /\ obs.act = "id_extracted"
    /\ obs.found = Leaf(4, "deep")
    /\ DepthOfNested(obs.response) = 5
    /\ LeafAt(obs.response, "root") = Leaf(30, "root")
    /\ LeafAt(obs.response, "SH") = Leaf(3, "SH")

\* C22: an order webhook is acknowledged before any lifecycle work (the
\* auto-send check, the partner call, the ledger write) starts, and the
\* caller gets the same 200 whether that work succeeds or throws.
C22_AcknowledgedBeforeWork ==
    [][ /\ \A p \in Procs :
             (/\ res[p].phase = "received"
              /\ obs'.act \in {"send_skipped", "send_start"})
             => res[p].status = httpOk
        /\ obs'.act = "webhook_done" => obs'.code = httpOk ]_vars

\* the second half of C22 alone: the answer is 200 on either path
C22_SameAnswerOnFailure ==
    [][ obs'.act = "webhook_done" => obs'.code = httpOk ]_vars

\* a webhook whose handler threw has been answered
C22_FailedWebhookAnswered ==
    obs.act = "webhook_done" /\ ~obs.ok /\ obs.code = httpOk

\* an operation that has read the ledger or called the partner for a store
\* and has not written its result yet
InFlight(p, shop) ==
    /\ proc[p].shop = shop
    /\ \/ proc[p].pc \in {"send_save", "send_catch"}
       \/ proc[p].pc \in Jobs \cup {"job_check"} /\ proc[p].queue # <<>>

\* C23: for any one tenant at most one operation (webhook Send, manual
\* action, background job) is between its partner call and its ledger
\* write at any time, so no read-modify-write of a row is interleaved with
\* another operation of the tenant.
C23_OneOperationPerTenant ==
    \A shop \in Shops : \A p, q \in Procs :
        (InFlight(p, shop) /\ InFlight(q, shop)) => p = q

\* C24: each job is idempotent: when it is invoked twice in succession, with
\* the same partner answers and no time passing, the second invocation
\* writes no shipment row.
C24_SecondRunWritesNothing ==
    [][ \A p \in Procs : SecondRun(p) => ledger' = ledger ]_vars

\* the second sync run asked the partner about a row whose status the first
\* run had changed
C24_SecondSyncAskedAgain ==
    /\ obs.act = "sync_item" /\ obs.calls > 0
    /\ \E p \in Procs : SecondRun(p)
    /\ \E r \in ledger : r.shopifyOrderId = obs.order /\ r.status = "in_transit"

\* C25: a Temp-ID Resolution pass promotes a row only to an ID that is not
\* of the temporary pattern, and a promoted row has the found ID,
\* isTemporary = false, lookupAttempts = 0, nextLookupAt = null and status new.
C25_Promotion ==
    [][ \A p \in Procs :
          (/\ proc[p].pc = "job_temp" /\ proc[p].queue # <<>>
           /\ obs'.act = "temp_item")
          => LET id == Head(proc[p].queue).id
                 after == CHOOSE r \in ledger' : r.id = id
             IN  ~after.isTemporaryId
                 => /\ ~isTemporaryId(after.shipmentId)
                    /\ after.lookupAttempts = 0
                    /\ after.nextLookupAt = NoTime
                    /\ after.status = "new" ]_vars

\* C26: a Temp-ID Resolution pass looks up only rows with isTemporary = true,
\* lookupAttempts < max and nextLookupAt null or not later than now; when it
\* finds no real ID, lookupAttempts grows by exactly 1, lastLookupAt becomes
\* now, and nextLookupAt becomes now + lookupIntervalMinutes if the new count
\* is below max and null otherwise.
C26_FailedLookup ==
    [][ \A p \in Procs :
          (/\ proc[p].pc = "job_temp" /\ proc[p].queue # <<>>
           /\ obs'.act = "temp_item")
          => LET shipment == Head(proc[p].queue)
                 after == CHOOSE r \in ledger' : r.id = shipment.id
             IN  /\ shipment.isTemporaryId
                 /\ shipment.lookupAttempts < maxLookupAttempts
                 /\ shipment.nextLookupAt = NoTime \/ shipment.nextLookupAt <= now
                 /\ ~obs'.ok
                    => /\ after.lookupAttempts = shipment.lookupAttempts + 1
                       /\ after.lastLookupAt = now
                       /\ after.nextLookupAt =
                             IF after.lookupAttempts < maxLookupAttempts
                             THEN now + lookupIntervalMinutes ELSE NoTime ]_vars

\* C26 in the express job alone
C26_FailedLookupExpress ==
    [][ app = "express" => C26_FailedLookup!1 ]_vars

\* C27: a manual ID correction of an existing row leaves it with the
\* supplied ID, isTemporary = false, lookupAttempts = 0 and nextLookupAt =
\* null (status and statusDetails are reset too and then belong to the
\* Refresh that follows); for an order without a row it fails with a
\* shipment-not-found error and writes nothing.
C27_ManualCorrection ==
    [][ obs'.act = "manual_id"
        => LET row == findUnique(ledger, obs'.shop, obs'.order)
               after == findUnique(ledger', obs'.shop, obs'.order)
           IN  IF row = NoRow
               THEN ~obs'.ok /\ obs'.err = "Shipment not found" /\ ledger' = ledger
               ELSE /\ after.shipmentId \in ManualIds
                    /\ ~after.isTemporaryId
                    /\ after.lookupAttempts = 0
                    /\ after.nextLookupAt = NoTime ]_vars

\* C27 in the React-Router app alone
C27_ManualCorrectionRemix ==
    [][ app = "remix" => C27_ManualCorrection!1 ]_vars

ShopifyOperations == {"send_save", "refresh", "manual_id", "sync_item", "temp_item"}

\* C28: when the update of the order in Shopify fails during Send, Refresh,
\* manual ID correction, Status Sync or Temp-ID Resolution, the failure is
\* logged and not raised (the caller sees no Shopify error and the operation
\* does not enter its error path), and the ledger write already made is
\* kept: the row is there and is not marked error.
C28_ShopifyFailureIsOnlyLogged ==
    [][ obs'.act \in ShopifyOperations
        => /\ obs'.err # ShopifyError
           /\ \A p \in Procs : proc'[p].err # ShopifyError
           /\ obs'.warn # ""
              => /\ shopify = "down"
                 /\ LET after == findUnique(ledger', obs'.shop, obs'.order)
                    IN  after # NoRow /\ after.status # "error" ]_vars

\* a Send whose Shopify update failed has stored its shipment
C28_SendSavedWhileShopifyDown ==
    /\ obs.act = "send_save" /\ obs.warn = ShopifyWarning /\ obs.ok
    /\ \E r \in ledger : r.shopifyOrderId = obs.order /\ r.shipmentId # NULL
                         /\ r.status = "new"

\* the rows C29 names: temporary, status new, sent more than 24 hours ago,
\* lookups exhausted
StuckFor24Hours(r, t) ==
    /\ r.isTemporaryId
    /\ r.status = "new"
    /\ r.sentAt # NoTime /\ r.sentAt < t - stuckCutoff
    /\ r.lookupAttempts >= maxLookupAttempts

\* C29: a Stuck-Order Sweep selects exactly the rows of the tenant that are
\* temporary, status new, sent more than 24 hours ago and at or above the
\* attempt cap; on each it sets status = error and a manual-intervention
\* statusDetails and nothing else, and it changes no other row.
C29_SweepMarksStuckRows ==
    [][ \A p \in Procs :
          proc[p].pc \in {"job_check", "job_check_errors"}
          => /\ (obs'.act = "check_begin" /\ obs'.ok)
                => {proc'[p].queue[i].id : i \in DOMAIN proc'[p].queue}
                     = {r.id : r \in {x \in ledger : /\ x.shop = proc'[p].shop
                                                     /\ StuckFor24Hours(x, now)}}
             /\ (obs'.act \in {"check_item", "check_error_item"} /\ ledger' # ledger)
                => \E r \in ledger :
                      /\ r.id = Head(proc[p].queue).id
                      /\ StuckFor24Hours(r, now)
                      /\ ledger' = (ledger \ {r})
                            \cup {[r EXCEPT !.status = "error",
                                            !.statusDetails = StuckNotice]} ]_vars

\* C29 in the React-Router app alone
C29_SweepMarksStuckRowsRemix ==
    [][ app = "remix" => C29_SweepMarksStuckRows!1 ]_vars

\* C30: every Stuck-Order Sweep of a tenant, whether or not it found a stuck
\* row, resets the error rows created within the last 24 hours to new (no
\* such row is left when the sweep of the store is over), and it never
\* resets a row created more than 24 hours ago.
C30_SweepResetsRecentErrors ==
    [][ \A p \in Procs :
          (/\ proc[p].pc \in {"job_check", "job_check_errors"}
           /\ obs'.act \in {"check_begin", "check_item", "check_error_item"}
           /\ obs'.ok)
          => /\ proc'[p].queue = <<>>
                => ErrorSelect(ledger', proc'[p].shop, now) = <<>>
             /\ \A r \in ledger, a \in ledger' :
                   (r.id = a.id /\ r.status = "error" /\ a.status = "new")
                   => r.createdAt >= now - stuckCutoff ]_vars

\* C31: Status Sync issues a get-status call only for a shipment that is not
\* temporary, has a shipment ID and whose status is none of completed,
\* cancelled, returned, error: a row whose stored status is error is never
\* polled.
C31_SyncPollsOnlyActiveRows ==
    [][ \A p \in Procs :
          (/\ proc[p].pc = "job_sync"
           /\ proc[p].queue # <<>>
           /\ obs'.act = "sync_item"
           /\ obs'.calls > 0)
          => LET shipment == Head(proc[p].queue) IN
             /\ ~shipment.isTemporaryId
             /\ shipment.shipmentId # NULL
             /\ shipment.status \notin Terminal \cup {"error"} ]_vars

\* C31 in the React-Router app alone
C31_SyncPollsOnlyActiveRowsRemix ==
    [][ app = "remix" => C31_SyncPollsOnlyActiveRows!1 ]_vars

\* C32: when the get-status call with the query parameter fails, for whatever
\* reason, getShipmentStatus calls once more without it: a Refresh fails to
\* its caller only after two calls of makeRequest.
C32_StatusCallRetriedOnce ==
    [][ (obs'.act = "refresh" /\ ~obs'.ok)
        => LET row == findUnique(ledger, obs'.shop, obs'.order) IN
           row # NoRow
           => \A sr \in getShipmentStatus(settings[obs'.shop], tokenSeq, now,
                                          row.shipmentId) :
                 (/\ ~sr.ok
                  /\ sr.st = settings'[obs'.shop] /\ sr.seq = tokenSeq'
                  /\ sr.err = obs'.err /\ sr.calls = obs'.calls)
                 => sr.attempts = 2 ]_vars

\* C32 in the React-Router app alone
C32_StatusCallRetriedOnceRemix ==
    [][ app = "remix" => C32_StatusCallRetriedOnce!1 ]_vars

\* C33: login fails to its caller after a single attempt when the username
\* or the password is unset (and then without a partner call), when the
\* partner rejects the credentials or when the answer has no token; a failed
\* login leaves the stored token and its expiry as they were.
C33_FailedLoginChangesNothing ==
    [][ \A shop \in Shops :
          LET st == settings[shop]
              unset == ~st.delifastUsername \/ ~st.delifastPassword
              first == obs'.trace[1]
          IN  /\ (obs'.act = "testConnection" /\ obs'.shop = shop)
                 => /\ Len(obs'.trace) = 1
                    /\ unset => (~obs'.ok /\ first.code = 0)
                    /\ ~obs'.ok => /\ settings'[shop].apiToken = st.apiToken
                                   /\ settings'[shop].tokenExpiry = st.tokenExpiry
              /\ (/\ obs'.act = "getCities" /\ obs'.shop = shop
                  /\ obs'.trace # <<>>
                  /\ first.ev = "login" /\ first.tok = NoToken)
                 => /\ ~obs'.ok
                    /\ Len(obs'.trace) = 1
                    /\ unset => first.code = 0
                    /\ settings'[shop].apiToken = st.apiToken
                    /\ settings'[shop].tokenExpiry = st.tokenExpiry ]_vars

\* a login failed while a token was cached, and the token is still there
C33_TokenKeptAfterFailedLogin ==
    /\ obs.act = "testConnection" /\ ~obs.ok
    /\ obs.trace[1].code # 0
    /\ settings[obs.shop].apiToken # NoToken

\* C34: in every reachable ledger state the stored status of every shipment
\* row is one of new, in_transit, completed, cancelled, returned, error and
\* not_found; no operation writes another value such as unknown.
LedgerStatuses ==
    {"new", "in_transit", "completed", "cancelled", "returned", "error", "not_found"}

C34_StatusIsDocumented ==
    \A r \in ledger : r.status \in LedgerStatuses

\* C35: sender-profile enrichment from a login response happens once: a
\* successful login (connection test, token refresh or re-login after a 401)
\* leaves a sender field the merchant has typed as it is, writes only the
\* fields its response carries and leaves the others unchanged.
SuccessfulLogin(trace) ==
    \E i \in 1..Len(trace) : trace[i].ev = "login" /\ trace[i].tok # NoToken

C35_LoginKeepsEditedSender ==
    [][ SuccessfulLogin(obs'.trace)
        => \A shop \in DOMAIN settings :
              /\ settings[shop].senderName = "merchant"
                    => settings'[shop].senderName = "merchant"
              /\ settings[shop].senderAddress = "merchant"
                    => settings'[shop].senderAddress = "merchant"
              /\ profile.FullName = NoSender
                    => settings'[shop].senderName = settings[shop].senderName
              /\ profile.Address = NoSender
                    => settings'[shop].senderAddress = settings[shop].senderAddress
      ]_vars

\* C35, second half alone: a login writes exactly the sender fields its
\* response carries
C35_LoginWritesPresentFieldsOnly ==
    [][ SuccessfulLogin(obs'.trace)
        => \A shop \in DOMAIN settings :
              /\ profile.FullName = NoSender
                    => settings'[shop].senderName = settings[shop].senderName
              /\ profile.Address = NoSender
                    => settings'[shop].senderAddress = settings[shop].senderAddress
      ]_vars

\* C36: under fair repeated Temp-ID Resolution passes, with time advancing
\* past each scheduled nextLookupAt, every temporary shipment eventually
\* becomes non-temporary or reaches lookupAttempts = maxLookupAttempts, also
\* when the store has more temporary shipments than one pass selects.
LookupSettled(id) ==
    \A r \in ledger :
        r.id = id => \/ ~r.isTemporaryId
                     \/ r.lookupAttempts = maxLookupAttempts

C36_BacklogIsWorkedOff ==
    \A id \in BacklogIds : <>[]LookupSettled(id)

\* C36 witness: the whole backlog is settled and one row of it has used up
\* its lookups
C36_BacklogSettled ==
    /\ \A id \in BacklogIds : LookupSettled(id)
    /\ \E r \in ledger : r.isTemporaryId /\ r.lookupAttempts = maxLookupAttempts
    /\ \E r \in ledger : r.id = BacklogSize /\ r.lastLookupAt # NoTime

\* C37: a lookup that fails with a partner, network or authentication error
\* is treated by the Temp-ID pass exactly like a not-found answer: nothing is
\* raised, lookupAttempts goes up by one and the row is rescheduled (or, in
\* the express app, parked once the attempts are used up), so failures alone
\* use up a shipment's lookups.
LookedUp(p) == Head(proc[p].queue)

C37_FailedLookupCountsAsNotFound ==
    [][ \A p \in Procs :
           ( /\ proc[p].pc = "job_temp"
             /\ proc[p].queue # <<>>
             /\ proc'[p].queue = Tail(proc[p].queue)
             /\ obs'.act = "temp_item"
             /\ obs'.warn = LookupFailed )
           => /\ obs'.err = ""
              /\ \E r \in ledger' :
                    /\ r.id = LookedUp(p).id
                    /\ r.shipmentId = LookedUp(p).shipmentId
                    /\ r.isTemporaryId
                    /\ r.lookupAttempts = LookedUp(p).lookupAttempts + 1
                    /\ r.lastLookupAt = now
                    /\ r.nextLookupAt =
                          IF app = "express" /\ r.lookupAttempts >= maxLookupAttempts
                          THEN NoTime ELSE now + lookupIntervalMinutes
      ]_vars

\* C37 witness: a failed lookup has just used up the last attempt of a row
\* whose earlier lookup had been counted too
C37_FailureExhaustedTheRow ==
    /\ obs.act = "temp_item"
    /\ obs.warn = LookupFailed
    /\ \E r \in ledger : /\ r.shopifyOrderId = obs.order
                         /\ r.isTemporaryId
                         /\ r.lookupAttempts = maxLookupAttempts

\* C38: when two operations of one store run login side by side, then once
\* both are through the cached token is the one the partner issued last,
\* never an earlier-issued token written last.
C38_LatestTokenIsCached ==
    (\A p \in Procs : proc[p].pc = "idle")
        => \A shop \in Shops :
              \/ settings[shop].apiToken = tokenSeq
              \/ settings[shop].apiToken = NoToken /\ tokenSeq = 0

\* C39: if a manual ID correction completes while a Temp-ID pass still holds
\* its earlier snapshot of the row, the later write of the pass neither
\* replaces the manually entered ID nor sets lookupAttempts or nextLookupAt:
\* the row keeps the manual ID, isTemporary = false, lookupAttempts = 0 and
\* nextLookupAt = null.
RowById(L, id) == CHOOSE r \in L : r.id = id

C39_PassLeavesCorrectedRowAlone ==
    [][ \A p \in Procs :
           ( /\ proc[p].pc = "job_temp"
             /\ proc[p].queue # <<>>
             /\ proc'[p].queue = Tail(proc[p].queue)
             /\ obs'.act = "temp_item"
             /\ LookedUp(p).isTemporaryId
             /\ ~RowById(ledger, LookedUp(p).id).isTemporaryId )
           => LET before == RowById(ledger, LookedUp(p).id)
                  after == RowById(ledger', LookedUp(p).id)
              IN  /\ after.shipmentId = before.shipmentId
                  /\ ~after.isTemporaryId
                  /\ after.lookupAttempts = 0
                  /\ after.nextLookupAt = NoTime
      ]_vars

\* C39 in the React-Router app alone
C39_PassLeavesCorrectedRowAloneRemix ==
    [][ app = "remix" => C39_PassLeavesCorrectedRowAlone!1 ]_vars

\* C40: a ledger row left by a failed Send (shipment ID null, not temporary;
\* status error, or new once the sweep has reset it) is never the subject of
\* a partner call of a background job: Status Sync and Temp-ID Resolution do
\* not select it, the sweep calls the partner for no row, and no job gives
\* the row a shipment ID.
FailedSendRow(r) == r.shipmentId = NULL /\ ~r.isTemporaryId

SweepActs == {"check_begin", "check_item", "check_error_item"}

GivenAnId(r, L) == \E r2 \in L : r2.id = r.id /\ r2.shipmentId # NULL

C40_JobsLeaveFailedSendAlone ==
    [][ /\ \A p \in Procs :
              proc'[p].pc \in Jobs
                 => \A i \in 1..Len(proc'[p].queue) :
                       ~FailedSendRow(proc'[p].queue[i])
        /\ obs'.act \in SweepActs => obs'.calls = 0
        /\ \A r \in ledger :
              (FailedSendRow(r) /\ GivenAnId(r, ledger'))
                 => obs'.act \in {"send_save", "manual_id"}
      ]_vars

\* C40 as stated: of all operations only a later Send gives the row a
\* shipment ID
C40_OnlySendGivesAnId ==
    [][ /\ C40_JobsLeaveFailedSendAlone!1
        /\ \A r \in ledger :
              (FailedSendRow(r) /\ GivenAnId(r, ledger'))
                 => obs'.act = "send_save"
      ]_vars

\* C40 witness: Status Sync has just selected the rows of a store that holds
\* a failed Send which the sweep reset to new
C40_SyncAfterReset ==
    /\ obs.act = "sync_begin"
    /\ \E r \in ledger : /\ FailedSendRow(r)
                         /\ r.status = "new"
                         /\ r.statusDetails = RetryNotice
    /\ \E p \in Procs : /\ proc[p].pc = "job_sync"
                        /\ proc[p].shop = "s1"

\* a later Send does give the row of the failed Send a shipment ID
C40_LaterSendGaveAnId ==
    /\ obs.act = "send_save"
    /\ obs.order = "o1"
    /\ \E r \in ledger : r.id = 1 /\ r.shipmentId # NULL

====
